---- MODULE Spec2Model ----
(***************************************************************************)
(* Design-tree parsing and token derivation of DesignGenius.               *)
(*                                                                         *)
(* figma-parser    : extractTextStyles, extractColors,                     *)
(*                   extractAutoLayoutInfo, extractSpacing,                *)
(*                   parseFigmaNodes                                       *)
(* tokens-generator: generateColorTokens, generateTypographyTokens,        *)
(*                   generateSpacingTokens, generateBorderRadiusTokens,    *)
(*                   generateDesignTokens                                  *)
(*                                                                         *)
(* Numbers.  Colour channels and alpha are fractions of 1 and are held as  *)
(* integers in units of 1/Den, so that 0.1, 0.3, 0.7, 0.8 and every k/255  *)
(* are exact.  On the channel values used below the IEEE double results    *)
(* of the source's arithmetic (brightness, Math.round(n * 255)) coincide   *)
(* with the exact rational results computed here.  Font sizes, weights,    *)
(* paddings, gaps and radii are integers.                                  *)
(*                                                                         *)
(* Optional fields.  A JavaScript object is a record whose DOMAIN holds    *)
(* exactly the fields that are present; an absent field is undefined.      *)
(* A field of type `number | {...}` holds Num(n) or the object record, so  *)
(* that typeof can tell them apart.                                        *)
(***************************************************************************)
EXTENDS Integers, Sequences, FiniteSets, TLC

VARIABLES
    nodes,          \* the input forest: FigmaNode[] handed to parseFigmaNodes
    parsedDesign,   \* ParsedDesign returned by parseFigmaNodes
    tokens,         \* DesignTokens returned by generateDesignTokens
    args,           \* argument of a direct call of one token generator
    result,         \* value returned by that call
    pc,             \* position: "start", "parsed", "done" / "call", "return"
                    \* / "enter", "traverse", "throw"
    heap,           \* node objects by reference, children held as references
    stack,          \* the forEach activations of a running traverse
    colorsMap,      \* the Map `colors` of a running extractColors
    requests,       \* the HTTP requests of the server: input, position, locals,
                    \* response
    clock,          \* Date.now() of the server process, in milliseconds
    files,          \* the files under OUTPUT_DIR: <<sessionId, fileName>> -> content
    db,             \* the rows of the table analyses
    figma,          \* what api.figma.com answers for the requested file
    env             \* process.env at start-up: is OPENAI_API_KEY set

vars == <<nodes, parsedDesign, tokens, args, result, pc, heap, stack, colorsMap,
          requests, clock, files, db, figma, env>>

\* the variables of a function call and those of the server
callVars == <<nodes, parsedDesign, tokens, args, result, pc, heap, stack, colorsMap>>

serverVars == <<requests, clock, files, db, figma, env>>

(***************************************************************************)
(* Bounds of the model                                                     *)
(***************************************************************************)
MaxNodes == 3        \* nodes in an input forest
MaxColors == 2       \* colours in a direct call of generateColorTokens
MaxStyles == 3       \* styles in a direct call of generateTypographyTokens
MaxSpacing == 2      \* values in a direct call of generateSpacingTokens
MaxRepeat == 5       \* values of a permutation-with-repeats spacing input
MaxRadius == 3       \* values in a direct call of generateBorderRadiusTokens
MaxStack == 6        \* forEach activations the call stack holds before it overflows
MaxComponents == 2    \* components that detectComponents returns
MaxFeatures == 2      \* features of an SOP the LLM returns
MaxApiNodes == 2      \* nodes below a page of the Figma file
MaxClock == 2         \* milliseconds that pass while the server is watched
MaxRequests == 2      \* analysis requests in progress at once

Den == 255 * 10      \* a channel value k stands for k / Den

\* the number Infinity (JSON.parse("1e999")): above every finite value here
Infinity == 2 ^ 30

None == [none |-> TRUE]     \* "no value yet" for a variable that is not set

\* no server is running: the functions are called directly
ServerIdle ==
    /\ requests = <<>>
    /\ clock = 0
    /\ files = <<>>
    /\ db = {}
    /\ figma = None
    /\ env = None

\* no direct call is in progress: the server's handlers hold their own locals
CallIdle ==
    /\ nodes = None
    /\ parsedDesign = None
    /\ tokens = None
    /\ args = None
    /\ result = None
    /\ pc = "server"
    /\ heap = None
    /\ stack = <<>>
    /\ colorsMap = <<>>

(***************************************************************************)
(* JavaScript values                                                       *)
(***************************************************************************)
Has(obj, field) == field \in DOMAIN obj

Num(n) == [num |-> n]

typeof(x) == IF Has(x, "num") THEN "number" ELSE "object"

\* obj.field || dflt for a numeric field: undefined and 0 are falsy
OrNum(obj, field, dflt) ==
    IF Has(obj, field) /\ obj[field] # 0 THEN obj[field] ELSE dflt

\* obj.field || dflt for a string field: undefined and "" are falsy
OrStr(obj, field, dflt) ==
    IF Has(obj, field) /\ obj[field] # "" THEN obj[field] ELSE dflt

\* Map<string, V> in insertion order: a sequence of [key, value] entries
MapHas(m, k) == \E i \in 1..Len(m) : m[i].key = k

MapSet(m, k, v) ==
    IF MapHas(m, k)
    THEN [i \in 1..Len(m) |-> IF m[i].key = k THEN [key |-> k, value |-> v] ELSE m[i]]
    ELSE Append(m, [key |-> k, value |-> v])

MapValues(m) == [i \in 1..Len(m) |-> m[i].value]

\* Array.prototype.includes
Includes(arr, v) == \E i \in 1..Len(arr) : arr[i] = v

\* [...new Set(arr)]: the first occurrence of each value, in order
RECURSIVE UniqueOf(_)
UniqueOf(arr) ==
    IF arr = <<>> THEN <<>>
    ELSE LET init == UniqueOf(SubSeq(arr, 1, Len(arr) - 1))
             last == arr[Len(arr)]
         IN  IF Includes(init, last) THEN init ELSE Append(init, last)

\* arr.sort((a, b) => a - b): ascending numeric order, equal values kept
RECURSIVE InsertAsc(_, _)
InsertAsc(sorted, v) ==
    IF sorted = <<>> THEN <<v>>
    ELSE IF v < Head(sorted) THEN <<v>> \o sorted
    ELSE <<Head(sorted)>> \o InsertAsc(Tail(sorted), v)

RECURSIVE SortAsc(_)
SortAsc(arr) ==
    IF arr = <<>> THEN <<>>
    ELSE InsertAsc(SortAsc(SubSeq(arr, 1, Len(arr) - 1)), arr[Len(arr)])

\* Math.round(n * 255) for a channel n = k / Den (ties go up)
Round255(k) == (2 * 255 * k + Den) \div (2 * Den)

HexDigits == <<"0", "1", "2", "3", "4", "5", "6", "7",
               "8", "9", "a", "b", "c", "d", "e", "f">>

\* Number.prototype.toString(16) of a non-negative integer
RECURSIVE toString16(_)
toString16(v) ==
    IF v < 16 THEN HexDigits[v + 1]
    ELSE toString16(v \div 16) \o HexDigits[(v % 16) + 1]

UpperOf(c) ==
    CASE c = "a" -> "A" [] c = "b" -> "B" [] c = "c" -> "C"
      [] c = "d" -> "D" [] c = "e" -> "E" [] c = "f" -> "F"
      [] OTHER -> c

\* String.prototype.toUpperCase on the characters a hex string can hold
RECURSIVE toUpperCase(_)
toUpperCase(s) ==
    IF Len(s) = 0 THEN ""
    ELSE UpperOf(SubSeq(s, 1, 1)) \o toUpperCase(SubSeq(s, 2, Len(s)))

\* a.toFixed(2) for a = k / Den, 0 <= a (ties go up)
toFixed2(k) ==
    LET h == (2 * 100 * k + Den) \div (2 * Den)
        frac == h % 100
    IN  ToString(h \div 100) \o "." \o
        (IF frac < 10 THEN "0" \o ToString(frac) ELSE ToString(frac))

(***************************************************************************)
(* figma-parser                                                            *)
(***************************************************************************)
toHex(n) ==
    LET hex == toString16(Round255(n))
    IN  IF Len(hex) = 1 THEN "0" \o hex ELSE hex

rgbToHex(r, g, b) == toUpperCase("#" \o toHex(r) \o toHex(g) \o toHex(b))

rgbToRgba(r, g, b, a) ==
    "rgba(" \o ToString(Round255(r)) \o ", " \o ToString(Round255(g)) \o ", "
            \o ToString(Round255(b)) \o ", " \o toFixed2(a) \o ")"

\* key and value of one TEXT node's style (the body of `if (node.type === 'TEXT' ...`)
textStyleKey(style) ==
    OrStr(style, "fontFamily", "Unknown") \o "-" \o
    ToString(OrNum(style, "fontSize", 0)) \o "-" \o
    ToString(OrNum(style, "fontWeight", 400))

styleLineHeight(style) ==
    IF Has(style, "lineHeight") /\ typeof(style.lineHeight) = "object"
    THEN style.lineHeight.value
    ELSE IF Has(style, "lineHeight") /\ style.lineHeight.num # 0
         THEN style.lineHeight.num
         ELSE OrNum(style, "fontSize", 16)

styleLetterSpacing(style) ==
    IF Has(style, "letterSpacing") /\ typeof(style.letterSpacing) = "object"
    THEN style.letterSpacing.value
    ELSE IF Has(style, "letterSpacing") THEN style.letterSpacing.num ELSE 0

makeTextStyle(style) ==
    LET textStyle == [fontFamily    |-> OrStr(style, "fontFamily", "Inter"),
                      fontSize      |-> OrNum(style, "fontSize", 16),
                      fontWeight    |-> OrNum(style, "fontWeight", 400),
                      lineHeight    |-> styleLineHeight(style),
                      letterSpacing |-> styleLetterSpacing(style)]
    IN  IF Has(style, "textCase")
        THEN textStyle @@ ("textCase" :> style.textCase)
        ELSE textStyle

visitTextStyle(node, textStyles) ==
    IF node.type = "TEXT" /\ Has(node, "style")
    THEN LET key == textStyleKey(node.style)
         IN  IF ~MapHas(textStyles, key)
             THEN MapSet(textStyles, key, makeTextStyle(node.style))
             ELSE textStyles
    ELSE textStyles

\* traverse of extractTextStyles and the forEach that applies it
RECURSIVE traverseTextStyles(_, _), forEachTextStyles(_, _)
traverseTextStyles(node, textStyles) ==
    LET visited == visitTextStyle(node, textStyles)
    IN  IF Has(node, "children")
        THEN forEachTextStyles(node.children, visited)
        ELSE visited

forEachTextStyles(list, textStyles) ==
    IF list = <<>> THEN textStyles
    ELSE forEachTextStyles(Tail(list), traverseTextStyles(Head(list), textStyles))

extractTextStyles(forest) == MapValues(forEachTextStyles(forest, <<>>))

\* faulty variant of extractColorFromFill: the map is keyed by the rgba string
extractColorFromFill_KeyRgba(fill, colors) ==
    IF Has(fill, "type") /\ fill.type = "SOLID" /\ Has(fill, "color")
    THEN LET r == fill.color.r
             g == fill.color.g
             b == fill.color.b
             a == IF Has(fill.color, "a") THEN fill.color.a ELSE Den
             hex == rgbToHex(r, g, b)
             rgba == rgbToRgba(r, g, b, a)
         IN  IF ~MapHas(colors, rgba)
             THEN MapSet(colors, rgba,
                         [r |-> r, g |-> g, b |-> b, a |-> a, hex |-> hex, rgba |-> rgba])
             ELSE colors
    ELSE colors

\* faulty variant of extractColorFromFill: a later paint of the same hex
\* replaces the stored entry
extractColorFromFill_LastWins(fill, colors) ==
    IF Has(fill, "type") /\ fill.type = "SOLID" /\ Has(fill, "color")
    THEN LET r == fill.color.r
             g == fill.color.g
             b == fill.color.b
             a == IF Has(fill.color, "a") THEN fill.color.a ELSE Den
             hex == rgbToHex(r, g, b)
             rgba == rgbToRgba(r, g, b, a)
         IN  MapSet(colors, hex,
                    [r |-> r, g |-> g, b |-> b, a |-> a, hex |-> hex, rgba |-> rgba])
    ELSE colors

\* extractColorFromFill: the colours map after one paint entry
extractColorFromFill(fill, colors) ==
    IF Has(fill, "type") /\ fill.type = "SOLID" /\ Has(fill, "color")
    THEN LET r == fill.color.r
             g == fill.color.g
             b == fill.color.b
             a == IF Has(fill.color, "a") THEN fill.color.a ELSE Den
             hex == rgbToHex(r, g, b)
             rgba == rgbToRgba(r, g, b, a)
         IN  IF ~MapHas(colors, hex)
             THEN MapSet(colors, hex,
                         [r |-> r, g |-> g, b |-> b, a |-> a, hex |-> hex, rgba |-> rgba])
             ELSE colors
    ELSE colors

RECURSIVE forEachFill(_, _)
forEachFill(fills, colors) ==
    IF fills = <<>> THEN colors
    ELSE forEachFill(Tail(fills), extractColorFromFill(Head(fills), colors))

\* faulty variant of the effects callback: only effects of type SOLID count
extractColorFromEffect_SolidOnly(effect, colors) ==
    IF Has(effect, "color")
    THEN extractColorFromFill(effect, colors)
    ELSE colors

\* the callback of node.effects.forEach
extractColorFromEffect(effect, colors) ==
    IF Has(effect, "color")
    THEN extractColorFromFill([type |-> "SOLID", color |-> effect.color], colors)
    ELSE colors

RECURSIVE forEachEffect(_, _)
forEachEffect(effects, colors) ==
    IF effects = <<>> THEN colors
    ELSE forEachEffect(Tail(effects), extractColorFromEffect(Head(effects), colors))

visitColors(node, colors) ==
    LET afterFills   == IF Has(node, "fills") THEN forEachFill(node.fills, colors)
                        ELSE colors
        afterStrokes == IF Has(node, "strokes") THEN forEachFill(node.strokes, afterFills)
                        ELSE afterFills
    IN  IF Has(node, "effects") THEN forEachEffect(node.effects, afterStrokes)
        ELSE afterStrokes

\* traverse of extractColors and the forEach that applies it
RECURSIVE traverseColors(_, _), forEachColors(_, _)
traverseColors(node, colors) ==
    LET visited == visitColors(node, colors)
    IN  IF Has(node, "children")
        THEN forEachColors(node.children, visited)
        ELSE visited

forEachColors(list, colors) ==
    IF list = <<>> THEN colors
    ELSE forEachColors(Tail(list), traverseColors(Head(list), colors))

extractColors(forest) == MapValues(forEachColors(forest, <<>>))

\* faulty variant of visitAutoLayout: layoutMode NONE is recorded as well
visitAutoLayout_AnyMode(node, layouts) ==
    IF Has(node, "layoutMode") /\ node.layoutMode # ""
    THEN Append(layouts,
                [direction |-> node.layoutMode,
                 padding   |-> [left   |-> OrNum(node, "paddingLeft", 0),
                                right  |-> OrNum(node, "paddingRight", 0),
                                top    |-> OrNum(node, "paddingTop", 0),
                                bottom |-> OrNum(node, "paddingBottom", 0)],
                 spacing   |-> OrNum(node, "itemSpacing", 0)])
    ELSE layouts

\* the record pushed by extractAutoLayoutInfo for one node
visitAutoLayout(node, layouts) ==
    IF Has(node, "layoutMode") /\ node.layoutMode # "" /\ node.layoutMode # "NONE"
    THEN Append(layouts,
                [direction |-> node.layoutMode,
                 padding   |-> [left   |-> OrNum(node, "paddingLeft", 0),
                                right  |-> OrNum(node, "paddingRight", 0),
                                top    |-> OrNum(node, "paddingTop", 0),
                                bottom |-> OrNum(node, "paddingBottom", 0)],
                 spacing   |-> OrNum(node, "itemSpacing", 0)])
    ELSE layouts

RECURSIVE traverseAutoLayout(_, _), forEachAutoLayout(_, _)
traverseAutoLayout(node, layouts) ==
    LET visited == visitAutoLayout(node, layouts)
    IN  IF Has(node, "children")
        THEN forEachAutoLayout(node.children, visited)
        ELSE visited

forEachAutoLayout(list, layouts) ==
    IF list = <<>> THEN layouts
    ELSE forEachAutoLayout(Tail(list), traverseAutoLayout(Head(list), layouts))

extractAutoLayoutInfo(forest) == forEachAutoLayout(forest, <<>>)

\* faulty variant of spacingDataOf: itemSpacing is tested for truthiness, so a
\* gap of 0 is dropped
spacingDataOf_TruthyGap(node) ==
    LET padded ==
            IF OrNum(node, "paddingLeft", 0) # 0 \/ OrNum(node, "paddingRight", 0) # 0
               \/ OrNum(node, "paddingTop", 0) # 0 \/ OrNum(node, "paddingBottom", 0) # 0
            THEN ("padding" :> [left   |-> OrNum(node, "paddingLeft", 0),
                                right  |-> OrNum(node, "paddingRight", 0),
                                top    |-> OrNum(node, "paddingTop", 0),
                                bottom |-> OrNum(node, "paddingBottom", 0)])
            ELSE <<>>
    IN  IF OrNum(node, "itemSpacing", 0) # 0
        THEN padded @@ ("gap" :> node.itemSpacing)
        ELSE padded

\* spacingData of extractSpacing for one node: a record with optional padding, gap
spacingDataOf(node) ==
    LET padded ==
            IF OrNum(node, "paddingLeft", 0) # 0 \/ OrNum(node, "paddingRight", 0) # 0
               \/ OrNum(node, "paddingTop", 0) # 0 \/ OrNum(node, "paddingBottom", 0) # 0
            THEN ("padding" :> [left   |-> OrNum(node, "paddingLeft", 0),
                                right  |-> OrNum(node, "paddingRight", 0),
                                top    |-> OrNum(node, "paddingTop", 0),
                                bottom |-> OrNum(node, "paddingBottom", 0)])
            ELSE <<>>
    IN  IF Has(node, "itemSpacing")
        THEN padded @@ ("gap" :> node.itemSpacing)
        ELSE padded

visitSpacing(node, spacing) ==
    IF DOMAIN spacingDataOf(node) # {}
    THEN Append(spacing, spacingDataOf(node))
    ELSE spacing

RECURSIVE traverseSpacing(_, _), forEachSpacing(_, _)
traverseSpacing(node, spacing) ==
    LET visited == visitSpacing(node, spacing)
    IN  IF Has(node, "children")
        THEN forEachSpacing(node.children, visited)
        ELSE visited

forEachSpacing(list, spacing) ==
    IF list = <<>> THEN spacing
    ELSE forEachSpacing(Tail(list), traverseSpacing(Head(list), spacing))

extractSpacing(forest) == forEachSpacing(forest, <<>>)

\* borderRadius.push(val) unless borderRadius.includes(val)
pushRadius(borderRadius, val) ==
    IF ~Includes(borderRadius, val) THEN Append(borderRadius, val) ELSE borderRadius

\* faulty variant of visitBorderRadius: bottomRight is left out
visitBorderRadius_ThreeCorners(node, borderRadius) ==
    IF Has(node, "cornerRadius")
    THEN IF typeof(node.cornerRadius) = "number"
         THEN pushRadius(borderRadius, node.cornerRadius.num)
         ELSE pushRadius(pushRadius(pushRadius(borderRadius,
                  node.cornerRadius.topLeft), node.cornerRadius.topRight),
                  node.cornerRadius.bottomLeft)
    ELSE borderRadius

visitBorderRadius(node, borderRadius) ==
    IF Has(node, "cornerRadius")
    THEN IF typeof(node.cornerRadius) = "number"
         THEN pushRadius(borderRadius, node.cornerRadius.num)
         ELSE pushRadius(pushRadius(pushRadius(pushRadius(borderRadius,
                  node.cornerRadius.topLeft), node.cornerRadius.topRight),
                  node.cornerRadius.bottomLeft), node.cornerRadius.bottomRight)
    ELSE borderRadius

\* extractBorderRadius (local to parseFigmaNodes) and its forEach
RECURSIVE extractBorderRadius(_, _), forEachBorderRadius(_, _)
extractBorderRadius(node, borderRadius) ==
    LET visited == visitBorderRadius(node, borderRadius)
    IN  IF Has(node, "children")
        THEN forEachBorderRadius(node.children, visited)
        ELSE visited

forEachBorderRadius(list, borderRadius) ==
    IF list = <<>> THEN borderRadius
    ELSE forEachBorderRadius(Tail(list), extractBorderRadius(Head(list), borderRadius))

parseFigmaNodes(forest) ==
    [textStyles   |-> extractTextStyles(forest),
     colors       |-> extractColors(forest),
     autoLayouts  |-> extractAutoLayoutInfo(forest),
     spacing      |-> extractSpacing(forest),
     borderRadius |-> SortAsc(UniqueOf(forEachBorderRadius(forest, <<>>)))]

(***************************************************************************)
(* tokens-generator                                                        *)
(***************************************************************************)
\* brightness * 1000 * Den: (color.r * 299 + color.g * 587 + color.b * 114)
brightness(color) == color.r * 299 + color.g * 587 + color.b * 114

\* faulty variant of generateColorName: the brightness tests are not strict
generateColorName_NonStrict(color, index) ==
    IF brightness(color) <= 300 * Den
    THEN "neutral-" \o ToString(index + 1) \o "-dark"
    ELSE IF brightness(color) >= 700 * Den
    THEN "neutral-" \o ToString(index + 1) \o "-light"
    ELSE IF color.r > color.g /\ color.r > color.b
    THEN "primary-" \o ToString(index + 1)
    ELSE IF color.g > color.r /\ color.g > color.b
    THEN "secondary-" \o ToString(index + 1)
    ELSE "semantic-" \o ToString(index + 1)

generateColorName(color, index) ==
    IF brightness(color) < 300 * Den
    THEN "neutral-" \o ToString(index + 1) \o "-dark"
    ELSE IF brightness(color) > 700 * Den
    THEN "neutral-" \o ToString(index + 1) \o "-light"
    ELSE IF color.r > color.g /\ color.r > color.b
    THEN "primary-" \o ToString(index + 1)
    ELSE IF color.g > color.r /\ color.g > color.b
    THEN "secondary-" \o ToString(index + 1)
    ELSE "semantic-" \o ToString(index + 1)

\* faulty variant of categorizeColor: thresholds that differ from the name's
categorizeColor_NonStrict(color, index) ==
    IF brightness(color) <= 300 * Den \/ brightness(color) >= 700 * Den
    THEN "neutral"
    ELSE IF color.r > color.g /\ color.r > color.b
    THEN "primary"
    ELSE IF color.g > color.r /\ color.g > color.b
    THEN "secondary"
    ELSE "semantic"

\* faulty variant of categorizeColor: g need exceed only one other channel
categorizeColor_AnyChannel(color, index) ==
    IF brightness(color) < 300 * Den \/ brightness(color) > 700 * Den
    THEN "neutral"
    ELSE IF color.r > color.g /\ color.r > color.b
    THEN "primary"
    ELSE IF color.g > color.r \/ color.g > color.b
    THEN "secondary"
    ELSE "semantic"

categorizeColor(color, index) ==
    IF brightness(color) < 300 * Den \/ brightness(color) > 700 * Den
    THEN "neutral"
    ELSE IF color.r > color.g /\ color.r > color.b
    THEN "primary"
    ELSE IF color.g > color.r /\ color.g > color.b
    THEN "secondary"
    ELSE "semantic"

\* colors.map((color, index) => ...): TLA+ position i is index i - 1
generateColorTokens(colors) ==
    [i \in 1..Len(colors) |->
        [name     |-> generateColorName(colors[i], i - 1),
         value    |-> colors[i].hex,
         hex      |-> colors[i].hex,
         rgba     |-> colors[i].rgba,
         category |-> categorizeColor(colors[i], i - 1)]]

\* faulty variant of generateTypographyName: bold only above 700
generateTypographyName_StrictBold(style, index) ==
    LET size == style.fontSize
        weight == style.fontWeight
    IN  IF size >= 32
        THEN "heading-" \o (IF weight > 700 THEN "bold" ELSE "regular")
        ELSE IF size >= 24
        THEN "subheading-" \o (IF weight >= 600 THEN "semibold" ELSE "regular")
        ELSE IF size >= 18
        THEN "body-large-" \o (IF weight >= 500 THEN "medium" ELSE "regular")
        ELSE IF size >= 16
        THEN "body-" \o (IF weight >= 500 THEN "medium" ELSE "regular")
        ELSE IF size >= 14
        THEN "body-small-" \o (IF weight >= 500 THEN "medium" ELSE "regular")
        ELSE "caption-" \o (IF weight >= 500 THEN "medium" ELSE "regular")

\* faulty variant of generateTypographyName: the subheading band uses the
\* weight threshold of the body bands
generateTypographyName_SubheadingMedium(style, index) ==
    LET size == style.fontSize
        weight == style.fontWeight
    IN  IF size >= 32
        THEN "heading-" \o (IF weight >= 700 THEN "bold" ELSE "regular")
        ELSE IF size >= 24
        THEN "subheading-" \o (IF weight >= 500 THEN "semibold" ELSE "regular")
        ELSE IF size >= 18
        THEN "body-large-" \o (IF weight >= 500 THEN "medium" ELSE "regular")
        ELSE IF size >= 16
        THEN "body-" \o (IF weight >= 500 THEN "medium" ELSE "regular")
        ELSE IF size >= 14
        THEN "body-small-" \o (IF weight >= 500 THEN "medium" ELSE "regular")
        ELSE "caption-" \o (IF weight >= 500 THEN "medium" ELSE "regular")

generateTypographyName(style, index) ==
    LET size == style.fontSize
        weight == style.fontWeight
    IN  IF size >= 32
        THEN "heading-" \o (IF weight >= 700 THEN "bold" ELSE "regular")
        ELSE IF size >= 24
        THEN "subheading-" \o (IF weight >= 600 THEN "semibold" ELSE "regular")
        ELSE IF size >= 18
        THEN "body-large-" \o (IF weight >= 500 THEN "medium" ELSE "regular")
        ELSE IF size >= 16
        THEN "body-" \o (IF weight >= 500 THEN "medium" ELSE "regular")
        ELSE IF size >= 14
        THEN "body-small-" \o (IF weight >= 500 THEN "medium" ELSE "regular")
        ELSE "caption-" \o (IF weight >= 500 THEN "medium" ELSE "regular")

typographyKey(style) ==
    style.fontFamily \o "-" \o ToString(style.fontSize) \o "-" \o
    ToString(style.fontWeight)

\* faulty variant of uniqueStylesOf: a later style of the same key replaces
\* the stored one
RECURSIVE uniqueStylesOf_LastWins(_, _)
uniqueStylesOf_LastWins(textStyles, uniqueStyles) ==
    IF textStyles = <<>> THEN uniqueStyles
    ELSE LET style == Head(textStyles)
         IN  uniqueStylesOf_LastWins(Tail(textStyles),
                 MapSet(uniqueStyles, typographyKey(style), style))

\* textStyles.forEach(style => { if (!uniqueStyles.has(key)) uniqueStyles.set(key, style) })
RECURSIVE uniqueStylesOf(_, _)
uniqueStylesOf(textStyles, uniqueStyles) ==
    IF textStyles = <<>> THEN uniqueStyles
    ELSE LET style == Head(textStyles)
             key == typographyKey(style)
         IN  uniqueStylesOf(Tail(textStyles),
                 IF ~MapHas(uniqueStyles, key)
                 THEN MapSet(uniqueStyles, key, style)
                 ELSE uniqueStyles)

typographyToken(style, index) ==
    LET token == [name          |-> generateTypographyName(style, index),
                  fontFamily    |-> style.fontFamily,
                  fontSize      |-> style.fontSize,
                  fontWeight    |-> style.fontWeight,
                  lineHeight    |-> style.lineHeight,
                  letterSpacing |-> style.letterSpacing]
    IN  IF Has(style, "textCase")
        THEN token @@ ("textCase" :> style.textCase)
        ELSE token

generateTypographyTokens(textStyles) ==
    LET styles == MapValues(uniqueStylesOf(textStyles, <<>>))
    IN  [i \in 1..Len(styles) |-> typographyToken(styles[i], i - 1)]

spacingName(value, index) ==
    IF value = 0 THEN "none"
    ELSE IF value <= 4 THEN "xs-" \o ToString(index)
    ELSE IF value <= 8 THEN "sm-" \o ToString(index)
    ELSE IF value <= 16 THEN "md-" \o ToString(index)
    ELSE IF value <= 24 THEN "lg-" \o ToString(index)
    ELSE IF value <= 32 THEN "xl-" \o ToString(index)
    ELSE "xxl-" \o ToString(index)

\* faulty variant of generateSpacingTokens: sorted but not deduplicated
generateSpacingTokens_NoDedup(spacing) ==
    LET uniqueSpacing == SortAsc(spacing)
    IN  [i \in 1..Len(uniqueSpacing) |->
            [name     |-> spacingName(uniqueSpacing[i], i - 1),
             value    |-> uniqueSpacing[i],
             category |-> "gap"]]

generateSpacingTokens(spacing) ==
    LET uniqueSpacing == SortAsc(UniqueOf(spacing))
    IN  [i \in 1..Len(uniqueSpacing) |->
            [name     |-> spacingName(uniqueSpacing[i], i - 1),
             value    |-> uniqueSpacing[i],
             category |-> "gap"]]

\* faulty variant of borderRadiusName: the band limits are exclusive
borderRadiusName_Strict(value, index) ==
    IF value = 0 THEN "none"
    ELSE IF value < 4 THEN "sm-" \o ToString(index)
    ELSE IF value < 8 THEN "md-" \o ToString(index)
    ELSE IF value < 16 THEN "lg-" \o ToString(index)
    ELSE "xl-" \o ToString(index)

borderRadiusName(value, index) ==
    IF value = 0 THEN "none"
    ELSE IF value <= 4 THEN "sm-" \o ToString(index)
    ELSE IF value <= 8 THEN "md-" \o ToString(index)
    ELSE IF value <= 16 THEN "lg-" \o ToString(index)
    ELSE "xl-" \o ToString(index)

generateBorderRadiusTokens(borderRadius) ==
    LET uniqueRadius == SortAsc(UniqueOf(borderRadius))
    IN  [i \in 1..Len(uniqueRadius) |->
            [name  |-> borderRadiusName(uniqueRadius[i], i - 1),
             value |-> uniqueRadius[i]]]

\* l => [l.padding.left, l.padding.right, l.padding.top, l.padding.bottom, l.spacing]
layoutValues(l) ==
    <<l.padding.left, l.padding.right, l.padding.top, l.padding.bottom, l.spacing>>

\* faulty variant of spacingValues: the gap is left out
spacingValues_NoGap(s) ==
    (IF Has(s, "padding")
     THEN <<s.padding.left, s.padding.right, s.padding.top, s.padding.bottom>>
     ELSE <<>>) \o
    (IF Has(s, "margin")
     THEN <<s.margin.left, s.margin.right, s.margin.top, s.margin.bottom>>
     ELSE <<>>)

\* s => [s.padding?.left, ..., s.margin?.left, ..., s.gap].filter(v => v !== undefined)
spacingValues(s) ==
    (IF Has(s, "padding")
     THEN <<s.padding.left, s.padding.right, s.padding.top, s.padding.bottom>>
     ELSE <<>>) \o
    (IF Has(s, "margin")
     THEN <<s.margin.left, s.margin.right, s.margin.top, s.margin.bottom>>
     ELSE <<>>) \o
    (IF Has(s, "gap") THEN <<s.gap>> ELSE <<>>)

RECURSIVE flatMapLayouts(_), flatMapSpacing(_)
flatMapLayouts(autoLayouts) ==
    IF autoLayouts = <<>> THEN <<>>
    ELSE layoutValues(Head(autoLayouts)) \o flatMapLayouts(Tail(autoLayouts))

flatMapSpacing(spacing) ==
    IF spacing = <<>> THEN <<>>
    ELSE spacingValues(Head(spacing)) \o flatMapSpacing(Tail(spacing))

\* faulty variant of allSpacingValues: the list starts with a 0 of its own
allSpacingValues_LeadingZero(design) ==
    <<0>> \o flatMapLayouts(design.autoLayouts) \o flatMapSpacing(design.spacing)

allSpacingValues(design) ==
    flatMapLayouts(design.autoLayouts) \o flatMapSpacing(design.spacing)

generateDesignTokens(design) ==
    [colors       |-> generateColorTokens(design.colors),
     typography   |-> generateTypographyTokens(design.textStyles),
     spacing      |-> generateSpacingTokens(allSpacingValues(design)),
     borderRadius |-> generateBorderRadiusTokens(design.borderRadius)]

\* tokens.typography.forEach(token => { fontSizeTokens[token.name] = [...] })
\* of generateTailwindConfig: an object keyed by token name
RECURSIVE fontSizeTokensOf(_, _)
fontSizeTokensOf(typography, fontSizeTokens) ==
    IF typography = <<>> THEN fontSizeTokens
    ELSE LET token == Head(typography)
             options == IF token.letterSpacing # 0
                        THEN [lineHeight    |-> ToString(token.lineHeight) \o "px",
                              letterSpacing |-> ToString(token.letterSpacing) \o "px"]
                        ELSE [lineHeight |-> ToString(token.lineHeight) \o "px"]
         IN  fontSizeTokensOf(Tail(typography),
                 MapSet(fontSizeTokens, token.name,
                        <<ToString(token.fontSize) \o "px", options>>))

(***************************************************************************)
(* The document generators: generateSOP, generateDesignKit,                *)
(* generateFeatureBreakdown.  A function that throws yields Throws; an     *)
(* async function settles as resolved with its value or as rejected.       *)
(* A markdown document is the sequence of the values written into it.      *)
(***************************************************************************)
Throws == [throws |-> TRUE]

Null == [null |-> TRUE]

\* `${value}` of a field that may be absent
Template(obj, field) == IF Has(obj, field) THEN obj[field] ELSE "undefined"

Settle(value) ==
    IF value = Throws THEN [settled |-> "rejected"]
    ELSE [settled |-> "resolved", value |-> value]

RECURSIVE Concat(_)
Concat(seqs) == IF seqs = <<>> THEN <<>> ELSE Head(seqs) \o Concat(Tail(seqs))

\* the places where formatSOPAsMarkdown reads a property of undefined or calls
\* forEach or replace on undefined
sopFormatThrows(sop) ==
    \/ ~Has(sop, "userJourney") \/ ~Has(sop, "featureBreakout") \/ ~Has(sop, "lld")
    \/ ~Has(sop.userJourney, "userStories")
    \/ ~Has(sop.featureBreakout, "features")
    \/ \E i \in 1..Len(sop.featureBreakout.features) :
           LET feature == sop.featureBreakout.features[i]
           IN  \/ ~Has(feature, "components")
               \/ ~Has(feature, "designTokens")
               \/ ~Has(feature, "accessibilityNotes")
    \/ ~Has(sop.lld, "diagrams")
    \/ \E i \in 1..Len(sop.lld.diagrams) :
           ~Has(sop.lld.diagrams[i], "steps") \/ ~Has(sop.lld.diagrams[i], "diagram")

formatSOPAsMarkdown(sop) ==
    IF sopFormatThrows(sop) THEN Throws
    ELSE LET features == sop.featureBreakout.features
             diagrams == sop.lld.diagrams
         IN  <<Template(sop, "title"), "User Journey">>
             \o sop.userJourney.userStories
             \o <<"Feature Breakout", Template(sop.featureBreakout, "description")>>
             \o Concat([i \in 1..Len(features) |->
                   <<Template(features[i], "name"), Template(features[i], "description")>>
                   \o features[i].components \o features[i].designTokens
                   \o features[i].accessibilityNotes])
             \o <<"LLD (Low Level Diagram)", Template(sop.lld, "description")>>
             \o Concat([i \in 1..Len(diagrams) |->
                   <<Template(diagrams[i], "journeyName"), diagrams[i].diagram>>])

\* arr.slice(0, n)
Slice(arr, n) == SubSeq(arr, 1, IF Len(arr) < n THEN Len(arr) ELSE n)

NamesOf(tokenList) == [i \in 1..Len(tokenList) |-> tokenList[i].name]

generateDefaultSOP(designTokens, components) ==
    IF \E i \in 1..Len(components) : components[i] = Null THEN Throws
    ELSE
    LET first == IF Len(components) > 0 THEN components[1].componentName ELSE "Component"
        userStories ==
            <<"As a user, I want to interact with the design system components",
              "As a user, I want the application to be accessible and responsive">>
            \o (IF Len(components) > 0
                THEN <<"As a user, I want to use " \o first \o " and other components">>
                ELSE <<>>)
        features ==
            [i \in 1..Len(components) |->
                [name |-> components[i].componentName,
                 description |-> IF Has(components[i], "description")
                                    /\ components[i].description # ""
                                 THEN components[i].description
                                 ELSE "Component " \o components[i].componentName,
                 components |-> <<components[i].componentName>>,
                 designTokens |-> NamesOf(Slice(designTokens.colors, 2))
                                  \o NamesOf(Slice(designTokens.typography, 1)),
                 accessibilityNotes |-> <<"Ensure proper color contrast for text",
                                          "Provide keyboard navigation support",
                                          "Include ARIA labels where appropriate">>]]
        diagrams ==
            [i \in 1..Len(userStories) |->
                [journeyName |-> "User Journey " \o ToString(i),
                 steps |-> <<[stepNumber |-> 1, component |-> first],
                             [stepNumber |-> 2, component |-> first],
                             [stepNumber |-> 3, component |-> first]>>,
                 diagram |-> "User -> [" \o first \o "] -> State Update -> UI Response"]]
        sopData ==
            [title |-> "SOP",
             userJourney |-> [userStories |-> userStories],
             featureBreakout |->
                [description |-> "The design system consists of "
                                 \o ToString(Len(components)) \o " components",
                 features |-> IF Len(features) > 0 THEN features
                              ELSE <<[name |-> "Default Feature",
                                      description |-> "Basic feature implementation",
                                      components |-> <<"Component">>,
                                      designTokens |->
                                          NamesOf(Slice(designTokens.colors, 2)),
                                      accessibilityNotes |->
                                          <<"Ensure accessibility compliance">>]>>],
             lld |-> [description |-> "Low-level diagrams showing user journey flows",
                      diagrams |-> diagrams]]
    IN  sopData @@ [fullDocument |-> formatSOPAsMarkdown(sopData)]

\* what the try block of a generator comes to for one LLM reply: Throws when
\* the call fails, the content is empty, JSON.parse or the formatter throws
DocumentFromReply(reply, Format(_)) ==
    IF reply.kind # "json" THEN Throws
    ELSE IF Format(reply.data) = Throws THEN Throws
    ELSE reply.data @@ [fullDocument |-> Format(reply.data)]

\* components.map(c => ({ name: c.componentName, ... })) while the context is built
contextThrows(components) == \E i \in 1..Len(components) : components[i] = Null

generateSOP(openai, reply, designTokens, components) ==
    IF ~openai THEN Settle(generateDefaultSOP(designTokens, components))
    ELSE LET tried == IF contextThrows(components) THEN Throws
                      ELSE DocumentFromReply(reply, formatSOPAsMarkdown)
         IN  IF tried # Throws THEN Settle(tried)
             ELSE Settle(generateDefaultSOP(designTokens, components))

\* the places where formatDesignKitAsMarkdown reads a property of undefined or
\* calls forEach on undefined
designKitFormatThrows(designKit) ==
    \/ ~Has(designKit, "typography") \/ ~Has(designKit.typography, "typefaces")
    \/ ~Has(designKit, "iconography") \/ ~Has(designKit.iconography, "guidelines")
    \/ ~Has(designKit, "spacingSystem") \/ ~Has(designKit.spacingSystem, "guidelines")
    \/ ~Has(designKit, "colorSystem") \/ ~Has(designKit.colorSystem, "guidelines")
    \/ ~Has(designKit, "gridAndLayout") \/ ~Has(designKit.gridAndLayout, "rules")
    \/ ~Has(designKit.gridAndLayout, "guidelines")

formatDesignKitAsMarkdown(designKit) ==
    IF designKitFormatThrows(designKit) THEN Throws
    ELSE LET typefaces == designKit.typography.typefaces
         IN  <<Template(designKit, "title"), Template(designKit, "subtitle"),
               "1. Typography">>
             \o [i \in 1..Len(typefaces) |-> Template(typefaces[i], "name")]
             \o <<"2. Iconography", Template(designKit.iconography, "description")>>
             \o designKit.iconography.guidelines
             \o <<"3. Spacing System", Template(designKit.spacingSystem, "scale")>>
             \o designKit.spacingSystem.guidelines
             \o <<"4. Color System", Template(designKit.colorSystem, "palette")>>
             \o designKit.colorSystem.guidelines
             \o <<"5. Grid and Layout System">>
             \o designKit.gridAndLayout.rules \o designKit.gridAndLayout.guidelines

\* arr.join(', ')
RECURSIVE Join(_)
Join(arr) ==
    IF arr = <<>> THEN ""
    ELSE IF Len(arr) = 1 THEN arr[1]
    ELSE arr[1] \o ", " \o Join(Tail(arr))

generateDefaultDesignKit(designTokens) ==
    LET typographyTypefaces ==
            [i \in 1..Len(designTokens.typography) |->
                LET token == designTokens.typography[i]
                IN  [name |-> token.name,
                     usage |-> IF token.fontSize >= 24 THEN "headings"
                               ELSE IF token.fontSize >= 16 THEN "body text"
                               ELSE "captions"]]
        values == SortAsc([i \in 1..Len(designTokens.spacing) |->
                              designTokens.spacing[i].value])
        designKitData ==
            [title |-> "Guide Lines",
             subtitle |-> "Style-Guides",
             typography |-> [typefaces |-> typographyTypefaces],
             iconography |->
                [description |-> "Iconography guidelines",
                 guidelines |-> <<"Use consistent icon sizes across components">>],
             spacingSystem |->
                [scale |-> IF Len(designTokens.spacing) > 0
                           THEN "Spacing values range from " \o ToString(values[1])
                                \o "px to " \o ToString(values[Len(values)]) \o "px"
                           ELSE "No spacing tokens defined",
                 guidelines |-> <<"Use spacing tokens instead of hardcoded values">>],
             colorSystem |->
                [palette |-> "Colors are categorized as: "
                             \o Join(UniqueOf([i \in 1..Len(designTokens.colors) |->
                                                  designTokens.colors[i].category])),
                 guidelines |-> <<"Use color tokens instead of hardcoded hex values">>],
             gridAndLayout |->
                [rules |-> <<"Use auto-layout for flexible component structures">>,
                 guidelines |-> <<"Ensure proper spacing between layout elements">>]]
    IN  designKitData @@ [fullDocument |-> formatDesignKitAsMarkdown(designKitData)]

generateDesignKit(openai, reply, designTokens, components) ==
    IF ~openai THEN Settle(generateDefaultDesignKit(designTokens))
    ELSE LET tried == IF contextThrows(components) THEN Throws
                      ELSE DocumentFromReply(reply, formatDesignKitAsMarkdown)
         IN  IF tried # Throws THEN Settle(tried)
             ELSE Settle(generateDefaultDesignKit(designTokens))

\* the places where formatFeatureBreakdownAsMarkdown reads a property of
\* undefined or calls forEach on undefined
breakdownFormatThrows(breakdown) ==
    \/ ~Has(breakdown, "features")
    \/ \E i \in 1..Len(breakdown.features) :
           LET feature == breakdown.features[i]
           IN  \/ ~Has(feature, "frontendFeature")
               \/ ~Has(feature.frontendFeature, "components")
               \/ ~Has(feature, "backendFeature")
               \/ ~Has(feature.backendFeature, "businessLogic")
               \/ ~Has(feature, "apiEndpoints")
               \/ ~Has(feature, "testCases")

formatFeatureBreakdownAsMarkdown(breakdown) ==
    IF breakdownFormatThrows(breakdown) THEN Throws
    ELSE <<Template(breakdown, "title")>>
         \o Concat([i \in 1..Len(breakdown.features) |->
               LET feature == breakdown.features[i]
               IN  <<Template(feature, "name"), "Frontend Feature">>
                   \o feature.frontendFeature.components
                   \o <<"Backend Feature">> \o feature.backendFeature.businessLogic
                   \o <<"API Endpoints">>
                   \o [j \in 1..Len(feature.apiEndpoints) |->
                          Template(feature.apiEndpoints[j], "path")]
                   \o <<"Test Cases">>
                   \o [j \in 1..Len(feature.testCases) |->
                          Template(feature.testCases[j], "name")]])

Alphabet == <<"A", "B", "C", "D", "E", "F", "G", "H", "I", "J", "K", "L", "M",
              "N", "O", "P", "Q", "R", "S", "T", "U", "V", "W", "X", "Y", "Z">>

Lowercase == <<"a", "b", "c", "d", "e", "f", "g", "h", "i", "j", "k", "l", "m",
               "n", "o", "p", "q", "r", "s", "t", "u", "v", "w", "x", "y", "z">>

LowerOf(c) ==
    IF \E i \in 1..Len(Alphabet) : Alphabet[i] = c
    THEN Lowercase[CHOOSE i \in 1..Len(Alphabet) : Alphabet[i] = c]
    ELSE c

\* String.prototype.toLowerCase
RECURSIVE toLowerCase(_)
toLowerCase(s) ==
    IF Len(s) = 0 THEN ""
    ELSE LowerOf(SubSeq(s, 1, 1)) \o toLowerCase(SubSeq(s, 2, Len(s)))

\* s.replace(/\s+/g, '-'): every run of white space becomes one hyphen
RECURSIVE replaceSpaces(_, _)
replaceSpaces(s, inRun) ==
    IF Len(s) = 0 THEN ""
    ELSE IF SubSeq(s, 1, 1) = " "
         THEN (IF inRun THEN "" ELSE "-") \o replaceSpaces(SubSeq(s, 2, Len(s)), TRUE)
         ELSE SubSeq(s, 1, 1) \o replaceSpaces(SubSeq(s, 2, Len(s)), FALSE)

\* One feature of the default breakdown; feature.name.toLowerCase() throws a
\* TypeError when the SOP feature has no name.
defaultBreakdownFeature(feature) ==
    IF ~Has(feature, "name") THEN Throws
    ELSE [name |-> feature.name,
          description |-> Template(feature, "description"),
          frontendFeature |->
             [components |-> IF Len(feature.components) > 0 THEN feature.components
                             ELSE <<"Component">>,
              designTokens |-> IF Len(feature.designTokens) > 0
                               THEN feature.designTokens
                               ELSE <<"primary-500", "spacing-4">>,
              accessibility |-> IF Len(feature.accessibilityNotes) > 0
                                THEN feature.accessibilityNotes
                                ELSE <<"Ensure keyboard navigation",
                                       "Provide ARIA labels",
                                       "Maintain color contrast">>],
          backendFeature |->
             [businessLogic |-> <<"Process " \o feature.name \o " request",
                                  "Validate input data",
                                  "Return appropriate response">>],
          apiEndpoints |->
             <<[method |-> "POST",
                path |-> "/api/" \o replaceSpaces(toLowerCase(feature.name), FALSE)]>>,
          testCases |->
             <<[name |-> feature.name \o " Success", testType |-> "e2e"],
               [name |-> feature.name \o " Failure - Invalid Input",
                testType |-> "integration"],
               [name |-> feature.name \o " Accessibility",
                testType |-> "accessibility"]>>]

generateDefaultFeatureBreakdown(sop, components) ==
    LET features == [i \in 1..Len(sop.featureBreakout.features) |->
                        defaultBreakdownFeature(sop.featureBreakout.features[i])]
        breakdownData == [title |-> "Feature Breakdown", features |-> features]
    IN  IF \E i \in 1..Len(features) : features[i] = Throws THEN Throws
        ELSE breakdownData
                @@ [fullDocument |-> formatFeatureBreakdownAsMarkdown(breakdownData)]

generateFeatureBreakdown(openai, reply, sop, components) ==
    IF ~openai THEN Settle(generateDefaultFeatureBreakdown(sop, components))
    ELSE LET tried == IF contextThrows(components) THEN Throws
                      ELSE DocumentFromReply(reply, formatFeatureBreakdownAsMarkdown)
         IN  IF tried # Throws THEN Settle(tried)
             ELSE Settle(generateDefaultFeatureBreakdown(sop, components))

(***************************************************************************)
(* code-generator: generateCode.  The generated source texts are held as   *)
(* the values interpolated into their templates.                           *)
(***************************************************************************)
\* Record<string, string> filled by tokens.forEach(token => map[token.name] = ...)
RECURSIVE pxTokensOf(_, _)
pxTokensOf(tokenList, map) ==
    IF tokenList = <<>> THEN map
    ELSE pxTokensOf(Tail(tokenList),
                    MapSet(map, Head(tokenList).name,
                           ToString(Head(tokenList).value) \o "px"))

RECURSIVE colorTokensOf(_, _)
colorTokensOf(colorList, map) ==
    IF colorList = <<>> THEN map
    ELSE colorTokensOf(Tail(colorList),
                       MapSet(map, Head(colorList).name, Head(colorList).hex))

generateTailwindConfig(designTokens) ==
    [colors       |-> colorTokensOf(designTokens.colors, <<>>),
     fontSize     |-> fontSizeTokensOf(designTokens.typography, <<>>),
     spacing      |-> pxTokensOf(designTokens.spacing, <<>>),
     borderRadius |-> pxTokensOf(designTokens.borderRadius, <<>>)]

Digits == <<"0", "1", "2", "3", "4", "5", "6", "7", "8", "9">>

IsAlphanumeric(c) ==
    \/ \E i \in 1..Len(Alphabet) : Alphabet[i] = c \/ Lowercase[i] = c
    \/ \E i \in 1..Len(Digits) : Digits[i] = c

\* str.replace(/[^a-zA-Z0-9]/g, '')
RECURSIVE alphanumericOf(_)
alphanumericOf(str) ==
    IF Len(str) = 0 THEN ""
    ELSE (IF IsAlphanumeric(SubSeq(str, 1, 1)) THEN SubSeq(str, 1, 1) ELSE "")
         \o alphanumericOf(SubSeq(str, 2, Len(str)))

\* str.replace(/^[a-z]/, match => match.toUpperCase())
capitalize(str) ==
    IF Len(str) > 0 /\ \E i \in 1..Len(Lowercase) : Lowercase[i] = SubSeq(str, 1, 1)
    THEN Alphabet[CHOOSE i \in 1..Len(Lowercase) : Lowercase[i] = SubSeq(str, 1, 1)]
         \o SubSeq(str, 2, Len(str))
    ELSE str

\* parseInt(hh, 16) of two hex digits of either case
hexDigitValue(c) ==
    CHOOSE v \in 0..15 : HexDigits[v + 1] = c \/ toUpperCase(HexDigits[v + 1]) = c

parseHexByte(hh) == 16 * hexDigitValue(SubSeq(hh, 1, 1)) + hexDigitValue(SubSeq(hh, 2, 2))

\* hexToRgb(hex) in units of 1/Den: parseInt(..) / 255
hexToRgb(hex) ==
    [r |-> parseHexByte(SubSeq(hex, 2, 3)) * 10,
     g |-> parseHexByte(SubSeq(hex, 4, 5)) * 10,
     b |-> parseHexByte(SubSeq(hex, 6, 7)) * 10]

Abs(x) == IF x < 0 THEN -x ELSE x

\* Math.abs(tokenRgb.c - bgColor.c) < 0.01 on all three channels
matchesColor(token, bgColor) ==
    LET tokenRgb == hexToRgb(token.hex)
    IN  /\ 100 * Abs(tokenRgb.r - bgColor.r) < Den
        /\ 100 * Abs(tokenRgb.g - bgColor.g) < Den
        /\ 100 * Abs(tokenRgb.b - bgColor.b) < Den

\* tokenList.find(t => t.value === value)?.name || fallback
nameOfValue(tokenList, value, fallback) ==
    IF \E i \in 1..Len(tokenList) : tokenList[i].value = value
    THEN tokenList[CHOOSE i \in 1..Len(tokenList) :
                      /\ tokenList[i].value = value
                      /\ \A j \in 1..(i - 1) : tokenList[j].value # value].name
    ELSE fallback

\* the class of one padding side: pushed only when the padding is truthy
paddingClass(node, field, prefix, designTokens) ==
    IF OrNum(node, field, 0) # 0
    THEN <<prefix \o nameOfValue(designTokens.spacing, node[field], "md-0")>>
    ELSE <<>>

generateReactComponent(node, designTokens) ==
    LET componentName ==
            LET cleaned == capitalize(alphanumericOf(node.name))
            IN  IF cleaned # "" THEN cleaned ELSE "Component"
        hasAutoLayout == OrStr(node, "layoutMode", "") \notin {"", "NONE"}
        flexDirection == IF Has(node, "layoutMode") /\ node.layoutMode = "HORIZONTAL"
                         THEN "row" ELSE "column"
        gap == IF OrNum(node, "itemSpacing", 0) # 0
               THEN "gap-" \o nameOfValue(designTokens.spacing, node.itemSpacing, "md-0")
               ELSE ""
        paddingClasses ==
            paddingClass(node, "paddingLeft", "pl-", designTokens)
                \o paddingClass(node, "paddingRight", "pr-", designTokens)
                \o paddingClass(node, "paddingTop", "pt-", designTokens)
                \o paddingClass(node, "paddingBottom", "pb-", designTokens)
        bgClass ==
            IF Has(node, "fills") /\ Len(node.fills) > 0
            THEN LET bgColor == node.fills[1].color
                     matching == {i \in 1..Len(designTokens.colors) :
                                     matchesColor(designTokens.colors[i], bgColor)}
                 IN  IF matching # {}
                     THEN "bg-" \o designTokens.colors[
                              CHOOSE i \in matching : \A j \in matching : i <= j].name
                     ELSE "bg-neutral-1"
            ELSE ""
        radiusClass ==
            IF Has(node, "cornerRadius") /\ typeof(node.cornerRadius) = "number"
               /\ node.cornerRadius.num > 0
            THEN "rounded-" \o nameOfValue(designTokens.borderRadius,
                                           node.cornerRadius.num, "md-0")
            ELSE ""
        children ==
            IF Has(node, "children") /\ Len(node.children) > 0
            THEN [i \in 1..Len(node.children) |->
                     LET cleaned == alphanumericOf(node.children[i].name)
                     IN  IF cleaned # "" THEN cleaned ELSE "Child"]
            ELSE <<"{/* Add children here */}">>
    IN  [componentName |-> componentName,
         flex |-> IF hasAutoLayout THEN "flex flex-" \o flexDirection ELSE "",
         gap |-> gap, paddingClasses |-> paddingClasses, bgClass |-> bgClass,
         radiusClass |-> radiusClass, children |-> children]

generateComponentExample(designTokens) ==
    <<"p-md-0", "text-heading-regular text-primary-1",
      "text-body-regular text-neutral-1-dark", "mt-md-0">>

generateCode(forest, designTokens) ==
    [reactComponent |-> IF forest # <<>>
                        THEN generateReactComponent(forest[1], designTokens)
                        ELSE "// No component generated",
     tailwindConfig |-> generateTailwindConfig(designTokens),
     componentExample |-> generateComponentExample(designTokens)]

(***************************************************************************)
(* figma-api-converter: convertApiNodeToInternal.  The dimension fields    *)
(* (x, y, width, height, absoluteBoundingBox) are read by no function      *)
(* modelled here and are left out.                                         *)
(***************************************************************************)
\* cond && { ...fields }: the fields when cond holds, nothing otherwise
Fields(cond, fields) == IF cond THEN fields ELSE <<>>

\* the elements of arr whose mask entry is TRUE, in order
RECURSIVE Masked(_, _)
Masked(arr, mask) ==
    IF arr = <<>> THEN <<>>
    ELSE (IF Head(mask) THEN <<Head(arr)>> ELSE <<>>) \o Masked(Tail(arr), Tail(mask))

\* array.filter(keep)
Filter(arr, keep(_)) == Masked(arr, [i \in 1..Len(arr) |-> keep(arr[i])])

\* { r, g, b, a: color.a ?? opacity ?? 1 }
convertColor(paint) ==
    [r |-> paint.color.r, g |-> paint.color.g, b |-> paint.color.b,
     a |-> IF Has(paint.color, "a") THEN paint.color.a
           ELSE IF Has(paint, "opacity") THEN paint.opacity
           ELSE Den]

convertFill(fill) ==
    [type |-> fill.type, color |-> convertColor(fill)]
        @@ Fields(Has(fill, "opacity"), [opacity |-> fill.opacity])

convertStroke(stroke) == [type |-> stroke.type, color |-> convertColor(stroke)]

convertEffect(effect) ==
    [type |-> effect.type,
     color |-> [r |-> effect.color.r, g |-> effect.color.g, b |-> effect.color.b,
                a |-> IF Has(effect.color, "a") THEN effect.color.a ELSE Den]]

\* fontSize * 1.2, exact on the font sizes used here (multiples of 5)
convertLineHeight(style) ==
    IF Has(style, "lineHeightPx") THEN Num(style.lineHeightPx)
    ELSE IF Has(style, "lineHeightPercent")
    THEN [value |-> style.lineHeightPercent, unit |-> "PERCENT"]
    ELSE IF Has(style, "lineHeightPercentFontSize")
    THEN [value |-> style.lineHeightPercentFontSize, unit |-> "PERCENT"]
    ELSE IF OrNum(style, "fontSize", 0) # 0 THEN Num((style.fontSize * 12) \div 10)
    ELSE Num(0)

convertLetterSpacing(style) ==
    IF ~Has(style, "letterSpacing") THEN Num(0)
    ELSE IF Has(style, "letterSpacingUnit") /\ style.letterSpacingUnit = "PIXELS"
    THEN Num(style.letterSpacing)
    ELSE [value |-> style.letterSpacing,
          unit |-> OrStr(style, "letterSpacingUnit", "PIXELS")]

convertStyle(style) ==
    Fields(Has(style, "fontFamily"), [fontFamily |-> style.fontFamily])
        @@ Fields(Has(style, "fontSize"), [fontSize |-> style.fontSize])
        @@ Fields(Has(style, "fontWeight"), [fontWeight |-> style.fontWeight])
        @@ [lineHeight |-> convertLineHeight(style),
            letterSpacing |-> convertLetterSpacing(style)]
        @@ Fields(Has(style, "textCase"), [textCase |-> style.textCase])

\* child.visible !== false
IsVisible(apiNode) == ~(Has(apiNode, "visible") /\ apiNode.visible = FALSE)

IsSolidWithColor(paint) == paint.type = "SOLID" /\ Has(paint, "color")

IsEffectWithColor(effect) == IsVisible(effect) /\ Has(effect, "color")

Copied(apiNode, field) == Fields(Has(apiNode, field), field :> apiNode[field])

RECURSIVE convertApiNodeToInternal(_)
convertApiNodeToInternal(apiNode) ==
    [id |-> apiNode.id, name |-> apiNode.name, type |-> apiNode.type]
        @@ Fields(Has(apiNode, "children") /\ Len(apiNode.children) > 0,
                  [children |->
                      LET kept == Filter(apiNode.children, IsVisible)
                      IN  [i \in 1..Len(kept) |-> convertApiNodeToInternal(kept[i])]])
        @@ Fields(Has(apiNode, "fills") /\ Len(apiNode.fills) > 0,
                  [fills |-> LET kept == Filter(apiNode.fills, IsSolidWithColor)
                             IN  [i \in 1..Len(kept) |-> convertFill(kept[i])]])
        @@ Fields(Has(apiNode, "strokes") /\ Len(apiNode.strokes) > 0,
                  [strokes |-> LET kept == Filter(apiNode.strokes, IsSolidWithColor)
                               IN  [i \in 1..Len(kept) |-> convertStroke(kept[i])]])
        @@ Fields(Has(apiNode, "effects") /\ Len(apiNode.effects) > 0,
                  [effects |-> LET kept == Filter(apiNode.effects, IsEffectWithColor)
                               IN  [i \in 1..Len(kept) |-> convertEffect(kept[i])]])
        @@ Fields(Has(apiNode, "characters") /\ apiNode.characters # "",
                  [characters |-> apiNode.characters])
        @@ Fields(Has(apiNode, "style"), [style |-> convertStyle(apiNode.style)])
        @@ Fields(Has(apiNode, "layoutMode") /\ apiNode.layoutMode # "",
                  [layoutMode |-> apiNode.layoutMode])
        @@ Copied(apiNode, "paddingLeft") @@ Copied(apiNode, "paddingRight")
        @@ Copied(apiNode, "paddingTop") @@ Copied(apiNode, "paddingBottom")
        @@ Copied(apiNode, "itemSpacing")
        @@ (IF Has(apiNode, "cornerRadius")
            THEN [cornerRadius |-> Num(apiNode.cornerRadius)]
            ELSE IF Has(apiNode, "rectangleCornerRadii")
            THEN [cornerRadius |->
                     [topLeft     |-> apiNode.rectangleCornerRadii[1],
                      topRight    |-> apiNode.rectangleCornerRadii[2],
                      bottomRight |-> apiNode.rectangleCornerRadii[3],
                      bottomLeft  |-> apiNode.rectangleCornerRadii[4]]]
            ELSE <<>>)

(***************************************************************************)
(* The HTTP server.  A response is the status and the body that res.json   *)
(* or res.send sends; a file's content is what JSON.stringify or the       *)
(* markdown formatter wrote.                                               *)
(***************************************************************************)
Response(status, body) == [status |-> status, body |-> body]

\* JSON.stringify(value, null, 2) and JSON.parse of such a text
Stringify(value) == [json |-> value]

Parse(text) == text.json

\* String.prototype.endsWith
endsWith(str, suffix) ==
    /\ Len(str) >= Len(suffix)
    /\ SubSeq(str, Len(str) - Len(suffix) + 1, Len(str)) = suffix

\* String.prototype.includes
includes(str, part) ==
    \E i \in 1..(Len(str) - Len(part) + 1) : SubSeq(str, i, i + Len(part) - 1) = part

\* faulty variant of allowedFiles: every file the analysis writes may be read
allowedFiles_AllWritten ==
    <<"accessibility-report.json", "analysis-results.json", "DesignKit.md", "SOP.md",
      "design-tokens.json", "feature-breakdown.md">>

allowedFiles ==
    <<"accessibility-report.json", "analysis-results.json", "DesignKit.md", "SOP.md">>

convertJSONToHTML(jsonData) == [html |-> "pre", text |-> Stringify(jsonData)]

convertMarkdownToHTML(markdown) == [html |-> "body", text |-> markdown]

\* GET /api/sessions/:sessionId/files/:fileName and .../download: the response
\* and the calls of fs made on the way
sessionFile(download, params, disk) ==
    LET filePath == <<params.sessionId, params.fileName>>
    IN  IF ~Includes(allowedFiles, params.fileName)
        THEN [fsCalls |-> <<>>,
              response |-> Response(403, [success |-> FALSE,
                                          error |-> "File not allowed"])]
        ELSE IF filePath \notin DOMAIN disk
        THEN [fsCalls |-> <<"existsSync">>,
              response |-> Response(404, [success |-> FALSE,
                                          error |-> "File not found"])]
        ELSE LET content == disk[filePath]
             IN  [fsCalls |-> <<"existsSync", "readFileSync">>,
                  response |->
                     IF ~download
                     THEN Response(200, [success |-> TRUE, content |-> content,
                                         fileName |-> params.fileName,
                                         sessionId |-> params.sessionId])
                     ELSE IF endsWith(params.fileName, ".json")
                     THEN Response(200, convertJSONToHTML(Parse(content)))
                     ELSE IF endsWith(params.fileName, ".md")
                     THEN Response(200, convertMarkdownToHTML(content))
                     ELSE Response(200, "")]

(***************************************************************************)
(* figma-api-service (getFileInfo, extractFileKeyFromUrl, getPagesFromFile) *)
(* and the pure parts of the handlers of POST /api/file-info and           *)
(* POST /api/analyse-page                                                  *)
(***************************************************************************)
\* the index of the first occurrence of part in str, 0 when there is none
indexOf(str, part) ==
    IF includes(str, part)
    THEN CHOOSE i \in 1..Len(str) :
             /\ i + Len(part) - 1 <= Len(str)
             /\ SubSeq(str, i, i + Len(part) - 1) = part
             /\ \A j \in 1..(i - 1) : SubSeq(str, j, j + Len(part) - 1) # part
    ELSE 0

\* str.split('/').filter(part => part.length > 0)
RECURSIVE pathPartsOf(_, _)
pathPartsOf(str, part) ==
    IF Len(str) = 0 THEN (IF part = "" THEN <<>> ELSE <<part>>)
    ELSE IF SubSeq(str, 1, 1) = "/"
         THEN (IF part = "" THEN <<>> ELSE <<part>>)
              \o pathPartsOf(SubSeq(str, 2, Len(str)), "")
         ELSE pathPartsOf(SubSeq(str, 2, Len(str)), part \o SubSeq(str, 1, 1))

\* new URL(url).pathname of an absolute URL without query; "" when new URL throws
pathnameOf(url) ==
    IF ~includes(url, "://") THEN ""
    ELSE LET rest == SubSeq(url, indexOf(url, "://") + 3, Len(url))
         IN  IF includes(rest, "/") THEN SubSeq(rest, indexOf(rest, "/"), Len(rest))
             ELSE "/"

\* pathParts[pathParts.indexOf(word) + 1] || null, "" standing for null
partAfter(pathParts, word) ==
    IF \E i \in 1..(Len(pathParts) - 1) :
           pathParts[i] = word /\ \A j \in 1..(i - 1) : pathParts[j] # word
    THEN pathParts[1 + CHOOSE i \in 1..(Len(pathParts) - 1) :
                       pathParts[i] = word /\ \A j \in 1..(i - 1) : pathParts[j] # word]
    ELSE ""

extractFileKeyFromUrl(url) ==
    IF pathnameOf(url) = "" THEN ""
    ELSE LET pathParts == pathPartsOf(pathnameOf(url), "")
         IN  IF partAfter(pathParts, "file") # "" THEN partAfter(pathParts, "file")
             ELSE partAfter(pathParts, "design")

\* the message of the Error getFileInfo throws for a response that is not ok
figmaErrorMessage(response) ==
    LET plain == "Figma API error: " \o ToString(response.status) \o " "
                 \o response.statusText
    IN  IF response.status = 429 THEN "Rate limit exceeded"
        ELSE IF response.text.kind = "json"
        THEN IF Has(response.text.data, "err") /\ response.text.data.err # ""
             THEN response.text.data.err
             ELSE plain
        ELSE IF response.text.kind = "text" THEN plain \o " - " \o response.text.text
        ELSE plain

\* getFileInfo: the promise resolves with the file or rejects with an Error
getFileInfo(response) ==
    IF response.ok THEN [settled |-> "resolved", value |-> response.data]
    ELSE [settled |-> "rejected", message |-> figmaErrorMessage(response)]

\* fileInfo.document.children.filter(child => child.type === 'CANVAS')
IsCanvas(child) == child.type = "CANVAS"

getPagesFromFile(fileInfo) == Filter(fileInfo.document.children, IsCanvas)

\* the catch (apiError) block of both handlers and the outer catch behind it;
\* extra is { sessionId } in the analysis handler and {} in the other
figmaErrorResponse(message, extra) ==
    IF includes(message, "403") \/ includes(message, "Forbidden")
    THEN Response(403, [success |-> FALSE, error |-> "Access denied",
                        errorCode |-> "PERMISSION_DENIED"] @@ extra)
    ELSE IF includes(message, "404") \/ includes(message, "Not Found")
    THEN Response(404, [success |-> FALSE, error |-> "File not found",
                        errorCode |-> "FILE_NOT_FOUND"] @@ extra)
    ELSE Response(500, [success |-> FALSE, error |-> message] @@ extra)

\* !value of a body field: absent or the empty string
Missing(body, field) == ~Has(body, field) \/ body[field] = ""

InvalidUrl ==
    "Invalid Figma URL. Expected format: https://www.figma.com/file/{fileKey}/..."

\* the checks of POST /api/file-info before getFileInfo; None when they pass
fileInfoRejection(body) ==
    IF Missing(body, "fileUrl")
    THEN Response(400, [success |-> FALSE, error |-> "fileUrl is required"])
    ELSE IF Missing(body, "accessToken")
    THEN Response(400, [success |-> FALSE,
                        error |-> "accessToken is required in request body"])
    ELSE IF extractFileKeyFromUrl(body.fileUrl) = ""
    THEN Response(400, [success |-> FALSE, error |-> InvalidUrl])
    ELSE None

\* the checks of POST /api/analyse-page before getFileInfo; None when they pass
analysePageRejection(body, sessionId) ==
    IF Missing(body, "fileUrl") \/ Missing(body, "pageId")
    THEN Response(400, [success |-> FALSE, error |-> "fileUrl and pageId are required",
                        sessionId |-> sessionId])
    ELSE IF Missing(body, "accessToken")
    THEN Response(400, [success |-> FALSE,
                        error |-> "accessToken is required in request body",
                        sessionId |-> sessionId])
    ELSE IF extractFileKeyFromUrl(body.fileUrl) = ""
    THEN Response(400, [success |-> FALSE, error |-> InvalidUrl,
                        sessionId |-> sessionId])
    ELSE None

\* pages.find(p => p.id === pageId), Null when there is none
findPage(pages, pageId) ==
    IF \E i \in 1..Len(pages) : pages[i].id = pageId
    THEN pages[CHOOSE i \in 1..Len(pages) :
                   pages[i].id = pageId /\ \A j \in 1..(i - 1) : pages[j].id # pageId]
    ELSE Null

\* the checks on the page; None when the page has nodes
pageRejection(page, pageId, sessionId) ==
    IF page = Null
    THEN Response(404, [success |-> FALSE,
                        error |-> "Page with id " \o pageId \o " not found in file",
                        sessionId |-> sessionId])
    ELSE IF ~Has(page, "children") \/ Len(page.children) = 0
    THEN Response(400, [success |-> FALSE,
                        error |-> "No nodes found in the selected page",
                        sessionId |-> sessionId])
    ELSE None

\* the mcp-agent functions: the static result without a key or when the try
\* block throws, the parsed reply otherwise
analyzeLayers(openai, reply) ==
    IF ~openai
    THEN [summary |-> "AI analysis unavailable.",
          issues |-> <<"OpenAI API key not configured">>]
    ELSE IF reply.kind # "json"
    THEN [summary |-> "Analysis could not be completed due to an error.",
          issues |-> <<"Analysis service unavailable">>]
    ELSE reply.data

detectComponents(openai, reply) ==
    IF ~openai \/ reply.kind # "json" THEN <<>>
    ELSE IF Has(reply.data, "components") THEN reply.data.components
    ELSE <<>>

generateNamingSuggestions(openai, reply) ==
    IF ~openai \/ reply.kind # "json" THEN <<>>
    ELSE IF Has(reply.data, "suggestions") THEN reply.data.suggestions
    ELSE <<>>

generateAccessibilityReport(openai, reply) ==
    IF ~openai
    THEN [score |-> 0, issues |-> <<[nodeId |-> "system", severity |-> "warning"]>>,
          summary |-> "Accessibility analysis requires OpenAI API key configuration."]
    ELSE IF reply.kind # "json"
    THEN [score |-> 0, issues |-> <<[nodeId |-> "unknown", severity |-> "error"]>>,
          summary |-> "Accessibility analysis could not be completed."]
    ELSE reply.data

\* the result object of the analysis handler
resultOf(locals, timestamp) ==
    [success |-> TRUE,
     sessionId |-> locals.sessionId,
     timestamp |-> timestamp,
     fileKey |-> locals.fileKey,
     fileName |-> locals.fileName,
     pageId |-> locals.pageId,
     pageName |-> locals.page.name,
     analysis |-> locals.analysis,
     components |-> locals.components,
     namingSuggestions |-> locals.namingSuggestions,
     tokens |-> locals.tokens,
     code |-> locals.code,
     accessibility |-> locals.accessibilityReport,
     sop |-> locals.sop,
     designKit |-> locals.designKit,
     featureBreakdown |-> locals.featureBreakdown]

\* the files an analysis writes into its session directory, in this order
writtenFiles ==
    <<"analysis-results.json", "design-tokens.json", "Component.tsx",
      "tailwind.config.js", "ExampleComponent.tsx", "SOP.md",
      "accessibility-report.json", "components.json", "naming-suggestions.json",
      "DesignKit.md", "feature-breakdown.md">>

\* what fs.writeFileSync writes into each file of the session directory
writtenContent(fileName, locals) ==
    CASE fileName = "analysis-results.json" -> Stringify(locals.result)
      [] fileName = "design-tokens.json" -> Stringify(locals.tokens)
      [] fileName = "Component.tsx" -> locals.code.reactComponent
      [] fileName = "tailwind.config.js" -> locals.code.tailwindConfig
      [] fileName = "ExampleComponent.tsx" -> locals.code.componentExample
      [] fileName = "SOP.md" -> locals.sop.fullDocument
      [] fileName = "accessibility-report.json" -> Stringify(locals.accessibilityReport)
      [] fileName = "components.json" -> Stringify(locals.components)
      [] fileName = "naming-suggestions.json" -> Stringify(locals.namingSuggestions)
      [] fileName = "DesignKit.md" -> locals.designKit.fullDocument
      [] fileName = "feature-breakdown.md" -> locals.featureBreakdown.fullDocument

\* faulty variant of analysisResponse: a failed database save fails the request
analysisResponse_DbErrorFails(saved, analysisResult, sessionId) ==
    IF saved THEN Response(200, analysisResult)
    ELSE Response(500, [success |-> FALSE, error |-> "duplicate key value",
                        sessionId |-> sessionId])

\* the end of the analysis handler: the try around createAnalysis swallows the
\* error and res.json(result) follows in both cases
analysisResponse(saved, analysisResult, sessionId) == Response(200, analysisResult)

(***************************************************************************)
(* Inputs                                                                  *)
(***************************************************************************)
SeqsUpTo(S, n) == UNION {[1..k -> S] : k \in 0..n}

\* every forest of exactly n nodes whose own fields are drawn from base;
\* a node without children has no children field
RECURSIVE TreesOf(_, _), ForestsOf(_, _)
TreesOf(base, n) ==
    {IF f = <<>> THEN b ELSE b @@ ("children" :> f) :
        b \in base, f \in ForestsOf(base, n - 1)}

ForestsOf(base, n) ==
    IF n = 0 THEN {<<>>}
    ELSE UNION {{<<t>> \o f : t \in TreesOf(base, k), f \in ForestsOf(base, n - k)} :
                   k \in 1..n}

ForestsUpTo(base, n) == UNION {ForestsOf(base, k) : k \in 0..n}

Color(r, g, b) == [r |-> r, g |-> g, b |-> b]

ColorA(r, g, b, a) == [r |-> r, g |-> g, b |-> b, a |-> a]

Solid(color) == [type |-> "SOLID", color |-> color]

Blue == Color(590, 1300, 2460)          \* 59/255, 130/255, 246/255: #3B82F6
BlueNear == ColorA(592, 1300, 2460, 1275)  \* rounds to #3B82F6 too, alpha 0.5
Red == Color(2040, 510, 510)            \* 0.8, 0.2, 0.2
Black == ColorA(0, 0, 0, 255 * 10)
Shadow == ColorA(0, 0, 0, 510)          \* alpha 0.2

Text(style) == [type |-> "TEXT", style |-> style]

Style(family, size, weight) ==
    [fontFamily |-> family, fontSize |-> size, fontWeight |-> weight]

HeadingText == Text(Style("Inter", 32, 700))
BodyText == Text(Style("Inter", 16, 400))

TextNodes ==
    { HeadingText,
      BodyText,
      Text(Style("Inter", 16, 400) @@ [lineHeight |-> Num(24), letterSpacing |-> Num(1),
                                      textCase |-> "UPPER"]),
      Text([fontFamily |-> "Inter", fontWeight |-> 400, lineHeight |-> Num(20)]),
      Text([fontFamily |-> "Inter", fontSize |-> 16,
            lineHeight |-> [value |-> 150, unit |-> "PERCENT"],
            letterSpacing |-> [value |-> 2, unit |-> "PIXELS"]]),
      Text([fontSize |-> 16, fontWeight |-> 400, lineHeight |-> Num(22)]),
      [type |-> "TEXT"],
      [type |-> "FRAME"] }

PaintNodes ==
    { [type |-> "FRAME", fills |-> <<Solid(Blue)>>],
      [type |-> "RECTANGLE", fills |-> <<Solid(BlueNear)>>, strokes |-> <<Solid(Red)>>],
      [type |-> "RECTANGLE", fills |-> <<[type |-> "GRADIENT_LINEAR"]>>,
                             strokes |-> <<Solid(Blue)>>],
      [type |-> "RECTANGLE", fills |-> <<[type |-> "IMAGE", color |-> Red]>>,
                             effects |-> <<[type |-> "DROP_SHADOW", color |-> Shadow],
                                           [type |-> "LAYER_BLUR"]>>],
      [type |-> "VECTOR", fills |-> <<Solid(Red), Solid(Black), Solid(Blue)>>],
      [type |-> "VECTOR", fills |-> <<[type |-> "SOLID"]>>, strokes |-> <<Solid(Black)>>],
      [type |-> "GROUP"] }

Corners(tl, tr, bl, br) ==
    [topLeft |-> tl, topRight |-> tr, bottomLeft |-> bl, bottomRight |-> br]

RadiusNodes ==
    { [type |-> "RECTANGLE", cornerRadius |-> Num(8)],
      [type |-> "RECTANGLE", cornerRadius |-> Num(0)],
      [type |-> "RECTANGLE", cornerRadius |-> Num(4)],
      [type |-> "FRAME", cornerRadius |-> Corners(8, 0, 16, 4)],
      [type |-> "FRAME", cornerRadius |-> Corners(12, 12, 2, 20)],
      [type |-> "FRAME"] }

DesignNodes ==
    { [type |-> "FRAME", fills |-> <<Solid(Blue)>>],
      [type |-> "FRAME", fills |-> <<Solid(Red)>>],
      [type |-> "FRAME", fills |-> <<Solid(Blue)>>, layoutMode |-> "VERTICAL",
       paddingLeft |-> 16, paddingRight |-> 16, itemSpacing |-> 8,
       cornerRadius |-> Num(8)],
      [type |-> "FRAME", layoutMode |-> "NONE", paddingTop |-> 24, itemSpacing |-> 0],
      HeadingText,
      BodyText,
      Text(Style("Inter", 16, 400)) @@ [fills |-> <<Solid(Black)>>] }

\* TEXT nodes that differ in how lineHeight and letterSpacing are given
LineHeightNodes ==
    { Text(Style("Inter", 32, 700) @@ [lineHeight |-> Num(0), letterSpacing |-> Num(0)]),
      Text(Style("Inter", 24, 600) @@ [lineHeight |-> Num(30), letterSpacing |-> Num(2)]),
      Text(Style("Inter", 16, 400) @@ [lineHeight |-> [value |-> 150, unit |-> "PERCENT"],
                                      letterSpacing |-> [value |-> 5, unit |-> "PERCENT"]]),
      Text(Style("Inter", 12, 400) @@ [lineHeight |-> [value |-> 0, unit |-> "PIXELS"]]),
      Text(Style("Inter", 14, 400)),
      Text([fontFamily |-> "Inter", fontWeight |-> 500]) }

\* frames that differ in layoutMode, padding and itemSpacing
LayoutNodes ==
    { [type |-> "FRAME", layoutMode |-> "HORIZONTAL", paddingLeft |-> 8, paddingRight |-> 8,
       paddingTop |-> 4, paddingBottom |-> 4, itemSpacing |-> 4],
      [type |-> "FRAME", layoutMode |-> "VERTICAL"],
      [type |-> "FRAME", layoutMode |-> "NONE", paddingTop |-> 24],
      [type |-> "FRAME", paddingLeft |-> 16],
      [type |-> "FRAME", paddingLeft |-> 0, paddingRight |-> 0, paddingTop |-> 0,
       paddingBottom |-> 0],
      [type |-> "FRAME", itemSpacing |-> 0],
      [type |-> "FRAME"] }

NodeFamilies ==
    {TextNodes, PaintNodes, RadiusNodes, DesignNodes, LineHeightNodes, LayoutNodes}

\* a ParsedColor as extractColorFromFill builds it, with alpha 1
ParsedColorOf(r, g, b) ==
    [r |-> r, g |-> g, b |-> b, a |-> Den,
     hex |-> rgbToHex(r, g, b), rgba |-> rgbToRgba(r, g, b, Den)]

ColorInputs ==
    { ParsedColorOf(255, 255, 255),      \* 0.1, 0.1, 0.1
      ParsedColorOf(2040, 510, 510),     \* 0.8, 0.2, 0.2
      ParsedColorOf(590, 1300, 2460),    \* #3B82F6
      ParsedColorOf(765, 765, 765),      \* B = 0.3, channels tied
      ParsedColorOf(1785, 1785, 1785),   \* B = 0.7, channels tied
      ParsedColorOf(2040, 0, 1360),      \* B = 0.3, r largest
      ParsedColorOf(0, 1110, 995),       \* B = 0.3, g largest
      ParsedColorOf(1840, 1790, 1615),   \* B = 0.7, r largest
      ParsedColorOf(510, 2550, 1190),    \* B = 0.7, g largest
      ParsedColorOf(2550, 2550, 2550),   \* white
      ParsedColorOf(2550, 0, 0),         \* pure red, B = 0.299
      ParsedColorOf(0, 1785, 0),         \* g largest, B = 0.41
      ParsedColorOf(1785, 1785, 0),      \* r = g > b
      ParsedColorOf(2550, 1020, 2550) }  \* r = b > g

FontSizes == {13, 14, 15, 16, 17, 18, 23, 24, 31, 32}

FontWeights == {400, 499, 500, 599, 600, 699, 700}

ParsedStyle(family, size, weight, lineHeight) ==
    [fontFamily |-> family, fontSize |-> size, fontWeight |-> weight,
     lineHeight |-> lineHeight, letterSpacing |-> 0]

StyleGrid == {ParsedStyle("Inter", sz, w, sz) : sz \in FontSizes, w \in FontWeights}

StyleInputs ==
    { ParsedStyle("Inter", 16, 400, 16),
      ParsedStyle("Inter", 16, 400, 24),
      ParsedStyle("Inter-16", 400, 400, 16),
      ParsedStyle("Inter", 16, 500, 16),
      ParsedStyle("Inter", 32, 700, 40),
      ParsedStyle("Roboto", 16, 400, 16) @@ [textCase |-> "UPPER"] }

SpacingInputs == {-4, 0, 2, 4, 5, 6, 8, 9, 16, 17, 20, 24, 25, 32, 33}

ExampleSpacing == {0, 2, 6, 20}

RadiusInputs == {0, 2, 4, 5, 8, 9, 16, 17}

\* spacing values of a file in which one number is not finite
NonFiniteSpacing == {8, Infinity}

\* object identities of the nodes of an in-memory graph
GraphRefs == {1, 2, 3}

\* the ascending sequence of a set of references
RECURSIVE SeqOfRefs(_)
SeqOfRefs(refs) ==
    IF refs = {} THEN <<>>
    ELSE LET least == CHOOSE r \in refs : \A q \in refs : r <= q
         IN  <<least>> \o SeqOfRefs(refs \ {least})

\* the node object behind a reference: its own paint, children by reference
GraphNode(ref, children) ==
    LET own == [type |-> "FRAME",
                fills |-> <<Solid(CASE ref = 1 -> Blue [] ref = 2 -> Red [] OTHER -> Black)>>]
    IN  IF children = {} THEN own ELSE own @@ ("children" :> SeqOfRefs(children))

\* every way the objects can refer to each other, cycles included
Heaps ==
    {[r \in GraphRefs |-> GraphNode(r, kids[r])] : kids \in [GraphRefs -> SUBSET GraphRefs]}

\* what detectComponents can return: Array.isArray(result) ? result :
\* (result.components || []) of the LLM's JSON, elements not validated
Button == [componentName |-> "Button", description |-> "A button"]

CardList == [componentName |-> "Card List"]

ComponentShapes == {Button, CardList, Null}

\* features of an SOP parsed from an LLM reply
SopFeature ==
    [name |-> "Sign In", description |-> "Signing in", components |-> <<"Button">>,
     designTokens |-> <<"primary-500">>, accessibilityNotes |-> <<>>]

SopFeatureNoName ==
    [description |-> "Signing in", components |-> <<"Button">>,
     designTokens |-> <<"primary-500">>, accessibilityNotes |-> <<>>]

SopFeatureNoComponents == [name |-> "Sign In", description |-> "Signing in"]

FeatureShapes == {SopFeature, SopFeatureNoName, SopFeatureNoComponents}

SopData(features) ==
    [title |-> "SOP",
     userJourney |-> [userStories |-> <<"As a user, I want to sign in">>],
     featureBreakout |-> [description |-> "One flow", features |-> features],
     lld |-> [description |-> "Flows",
              diagrams |-> <<[journeyName |-> "Sign in",
                              steps |-> <<[stepNumber |-> 1, component |-> "Button"]>>,
                              diagram |-> "User -> [Button]"]>>]]

\* how a call of the LLM ends: it fails, the content is empty, the content is
\* no JSON, or the content parses to some data
Failed == [kind |-> "error"]

Empty == [kind |-> "empty"]

NotJson == [kind |-> "text"]

Json(data) == [kind |-> "json", data |-> data]

SopReplies ==
    {Failed, Empty, NotJson, Json([title |-> "SOP"])}
        \cup {Json(SopData(f)) : f \in SeqsUpTo(FeatureShapes, MaxFeatures)}

DesignKitData ==
    [title |-> "Guide Lines", subtitle |-> "Style-Guides",
     typography |-> [typefaces |-> <<[name |-> "Inter"]>>],
     iconography |-> [description |-> "Icons", guidelines |-> <<"One icon set">>],
     spacingSystem |-> [scale |-> "8px grid", guidelines |-> <<"Use tokens">>],
     colorSystem |-> [palette |-> "Blue", guidelines |-> <<"Use tokens">>],
     gridAndLayout |-> [rules |-> <<"Auto-layout">>, guidelines |-> <<"Align">>]]

DesignKitReplies ==
    {Failed, Empty, NotJson, Json(DesignKitData), Json([title |-> "Guide Lines"])}

BreakdownFeature ==
    [name |-> "Sign In",
     frontendFeature |-> [components |-> <<"Button">>],
     backendFeature |-> [businessLogic |-> <<"Check the password">>],
     apiEndpoints |-> <<[method |-> "POST", path |-> "/api/sign-in"]>>,
     testCases |-> <<>>]

BreakdownReplies ==
    {Failed, Empty, NotJson,
     Json([title |-> "Feature Breakdown", features |-> <<BreakdownFeature>>]),
     Json([title |-> "Feature Breakdown", features |-> <<[name |-> "Sign In"]>>])}

\* nodes as the Figma REST API returns them
ApiNodes ==
    { [name |-> "Card", type |-> "FRAME", fills |-> <<Solid(Blue)>>,
       layoutMode |-> "VERTICAL", paddingLeft |-> 16, paddingTop |-> 24,
       itemSpacing |-> 8, cornerRadius |-> 8],
      [name |-> "Hidden badge", type |-> "RECTANGLE", visible |-> FALSE,
       fills |-> <<Solid(Red)>>, paddingRight |-> 4, itemSpacing |-> 12,
       cornerRadius |-> 12],
      [name |-> "title", type |-> "TEXT", visible |-> TRUE, characters |-> "Hello",
       style |-> [fontFamily |-> "Inter", fontSize |-> 20, fontWeight |-> 700],
       fills |-> <<Solid(Black)>>],
      [name |-> "row-2", type |-> "FRAME", paddingBottom |-> 16, itemSpacing |-> -8,
       rectangleCornerRadii |-> <<4, 4, 0, 0>>,
       fills |-> <<[type |-> "GRADIENT_LINEAR"], [type |-> "SOLID", color |-> Blue,
                                                  opacity |-> 1275]>>] }

\* the ids of a forest: "1", "2", ... for the roots, "1:1", "1:2", ... below
RECURSIVE NumberForest(_, _)
NumberForest(forest, prefix) ==
    [i \in 1..Len(forest) |->
        LET id == prefix \o ToString(i)
        IN  [id |-> id]
            @@ (IF Has(forest[i], "children")
                THEN [children |-> NumberForest(forest[i].children, id \o ":")]
                ELSE <<>>)
            @@ forest[i]]

ApiForests == {NumberForest(f, "") : f \in ForestsUpTo(ApiNodes, MaxApiNodes)}

\* the file GET /v1/files/:key returns: one page above the forest, beside a
\* child of the document that is no page
FigmaFile(forest) ==
    [ok |-> TRUE,
     data |-> [name |-> "Design file",
               document |-> [children |->
                   <<[id |-> "0:0", name |-> "Cover", type |-> "FRAME"],
                     [id |-> "0:1", name |-> "Page 1", type |-> "CANVAS",
                      children |-> forest]>>]]]

SampleFile ==
    FigmaFile(NumberForest(<<CHOOSE n \in ApiNodes : n.name = "Card">>, ""))

\* response.text() of an error response of the Figma API
ErrorTexts ==
    {[kind |-> "empty"],
     [kind |-> "text", text |-> "upstream error"],
     [kind |-> "json", data |-> [status |-> 403]],
     [kind |-> "json", data |-> [status |-> 403, err |-> "Invalid token"]],
     [kind |-> "json", data |-> [status |-> 404, err |-> "Not found"]]}

FigmaErrors ==
    {[ok |-> FALSE, status |-> status, statusText |-> statusText, text |-> text] :
        status \in {403, 404}, statusText \in {"", "Forbidden", "Not Found"},
        text \in ErrorTexts}
    \cup {[ok |-> FALSE, status |-> status, statusText |-> statusText,
           text |-> [kind |-> "empty"]] :
             status \in {429, 500}, statusText \in {"", "Server Error"}}

\* req.body of the two POST routes
FileUrls ==
    {"", "figma", "https://www.figma.com/proto/abc",
     "https://www.figma.com/file/abc/Home", "https://figma.com/design/abc/Home"}

Optional(field, values) == {<<>>} \cup {field :> v : v \in values}

FileInfoBodies ==
    {fileUrl @@ accessToken :
        fileUrl \in Optional("fileUrl", FileUrls),
        accessToken \in Optional("accessToken", {"figd_1"})}

AnalysePageBodies ==
    {b @@ pageId : b \in FileInfoBodies, pageId \in Optional("pageId", {"0:1", "9:9"})}

GoodBody ==
    [fileUrl |-> "https://figma.com/design/abc/Home", pageId |-> "0:1",
     accessToken |-> "figd_1"]

Arrived(route, body) == [route |-> route, body |-> body, pc |-> "received"]

\* replies of the LLM to the calls of the analysis handler
AnalysisReplies == {Failed, Json([summary |-> "A card", issues |-> <<>>])}

ComponentReplies == {Failed, Json([components |-> <<Button>>])}

NamingReplies ==
    {Failed, Json([suggestions |-> <<[nodeId |-> "1", suggestedName |-> "card"]>>])}

AccessibilityReplies == {Failed, Json([score |-> 90, issues |-> <<>>, summary |-> "Fine"])}

HandlerSopReplies ==
    {Failed, Json(SopData(<<SopFeature>>)), Json(SopData(<<SopFeatureNoName>>))}

HandlerDesignKitReplies == {Failed, Json(DesignKitData)}

HandlerBreakdownReplies ==
    {Failed, Json([title |-> "Feature Breakdown", features |-> <<BreakdownFeature>>])}

\* the replies a call can get: none is asked for without a key
RepliesTo(replies) == IF env.OPENAI_API_KEY THEN replies ELSE {Failed}

\* a row of the table analyses
Row(locals) ==
    [url |-> locals.fileUrl, session_id |-> locals.sessionId,
     file_key |-> locals.fileKey, page_id |-> locals.pageId,
     page_name |-> locals.page.name]

\* how the saving of the files ends: mkdirSync throws (-1), or the first k
\* writes succeed and, for k below the number of files, the next one throws
SaveOutcomes == {-1, 0, 6, Len(writtenFiles)}

Call(fn, arg) == [fn |-> fn, arg |-> arg]

(***************************************************************************)
(* The analysis pipeline: parseFigmaNodes, then generateDesignTokens       *)
(***************************************************************************)
Init ==
    /\ \E base \in NodeFamilies : nodes \in ForestsUpTo(base, MaxNodes)
    /\ parsedDesign = None
    /\ tokens = None
    /\ args = None
    /\ result = None
    /\ pc = "start"
    /\ heap = None
    /\ stack = <<>>
    /\ colorsMap = <<>>
    /\ ServerIdle

ParseFigmaNodes ==
    /\ pc = "start"
    /\ parsedDesign' = parseFigmaNodes(nodes)
    /\ pc' = "parsed"
    /\ UNCHANGED <<nodes, tokens, args, result, heap, stack, colorsMap>>
    /\ UNCHANGED serverVars

GenerateDesignTokens ==
    /\ pc = "parsed"
    /\ tokens' = generateDesignTokens(parsedDesign)
    /\ pc' = "done"
    /\ UNCHANGED <<nodes, parsedDesign, args, result, heap, stack, colorsMap>>
    /\ UNCHANGED serverVars

Next == ParseFigmaNodes \/ GenerateDesignTokens

Spec == Init /\ [][Next]_vars

(***************************************************************************)
(* Direct calls of the exported token generators                           *)
(***************************************************************************)
InitTokens ==
    /\ nodes = None
    /\ parsedDesign = None
    /\ tokens = None
    /\ \/ \E a \in SeqsUpTo(ColorInputs, MaxColors) :
              args = Call("generateColorTokens", a)
       \/ \E s \in StyleGrid : args = Call("generateTypographyTokens", <<s>>)
       \/ \E a \in SeqsUpTo(StyleInputs, MaxStyles) :
              args = Call("generateTypographyTokens", a)
       \/ \E a \in SeqsUpTo(SpacingInputs, MaxSpacing) :
              args = Call("generateSpacingTokens", a)
       \/ \E a \in SeqsUpTo(ExampleSpacing, MaxRepeat) :
              args = Call("generateSpacingTokens", a)
       \/ \E a \in SeqsUpTo(NonFiniteSpacing, MaxSpacing) :
              args = Call("generateSpacingTokens", a)
       \/ \E a \in SeqsUpTo(RadiusInputs, MaxRadius) :
              args = Call("generateBorderRadiusTokens", a)
       \/ \E f \in ForestsUpTo(RadiusNodes, MaxNodes) :
              args = Call("generateBorderRadiusTokens", parseFigmaNodes(f).borderRadius)
    /\ result = None
    /\ pc = "call"
    /\ heap = None
    /\ stack = <<>>
    /\ colorsMap = <<>>
    /\ ServerIdle

CallGenerateColorTokens ==
    /\ pc = "call"
    /\ args.fn = "generateColorTokens"
    /\ result' = generateColorTokens(args.arg)
    /\ pc' = "return"
    /\ UNCHANGED <<nodes, parsedDesign, tokens, args, heap, stack, colorsMap>>
    /\ UNCHANGED serverVars

CallGenerateTypographyTokens ==
    /\ pc = "call"
    /\ args.fn = "generateTypographyTokens"
    /\ result' = generateTypographyTokens(args.arg)
    /\ pc' = "return"
    /\ UNCHANGED <<nodes, parsedDesign, tokens, args, heap, stack, colorsMap>>
    /\ UNCHANGED serverVars

CallGenerateSpacingTokens ==
    /\ pc = "call"
    /\ args.fn = "generateSpacingTokens"
    /\ result' = generateSpacingTokens(args.arg)
    /\ pc' = "return"
    /\ UNCHANGED <<nodes, parsedDesign, tokens, args, heap, stack, colorsMap>>
    /\ UNCHANGED serverVars

CallGenerateBorderRadiusTokens ==
    /\ pc = "call"
    /\ args.fn = "generateBorderRadiusTokens"
    /\ result' = generateBorderRadiusTokens(args.arg)
    /\ pc' = "return"
    /\ UNCHANGED <<nodes, parsedDesign, tokens, args, heap, stack, colorsMap>>
    /\ UNCHANGED serverVars

NextTokens ==
    \/ CallGenerateColorTokens
    \/ CallGenerateTypographyTokens
    \/ CallGenerateSpacingTokens
    \/ CallGenerateBorderRadiusTokens

SpecTokens == InitTokens /\ [][NextTokens]_vars

(***************************************************************************)
(* extractColors on nodes held by reference, one call of traverse per step *)
(***************************************************************************)
\* the arrays of root references a caller passes
GraphRoots == {<<1>>, <<1, 2>>, <<3>>}

InitGraph ==
    /\ heap \in Heaps
    /\ nodes \in GraphRoots
    /\ parsedDesign = None
    /\ tokens = None
    /\ args = None
    /\ result = None
    /\ pc = "enter"
    /\ stack = <<>>
    /\ colorsMap = <<>>
    /\ ServerIdle

\* faulty variant of EnterExtractColors: the Map is a module-level cache that
\* every call goes on filling
EnterExtractColors_SharedMap ==
    /\ pc = "enter"
    /\ stack' = <<[list |-> nodes, at |-> 1]>>
    /\ pc' = "traverse"
    /\ UNCHANGED <<nodes, parsedDesign, tokens, args, result, heap, colorsMap>>
    /\ UNCHANGED serverVars

\* const colors = new Map(); nodes.forEach(traverse) begins
EnterExtractColors ==
    /\ pc = "enter"
    /\ colorsMap' = <<>>
    /\ stack' = <<[list |-> nodes, at |-> 1]>>
    /\ pc' = "traverse"
    /\ UNCHANGED <<nodes, parsedDesign, tokens, args, result, heap>>
    /\ UNCHANGED serverVars

\* the innermost forEach calls traverse on its next element: the node's own
\* paints are taken, then node.children.forEach(traverse) begins
Traverse ==
    /\ pc = "traverse"
    /\ Len(stack) < MaxStack
    /\ LET top == stack[Len(stack)]
       IN  /\ top.at <= Len(top.list)
           /\ LET node == heap[top.list[top.at]]
                  advanced == [stack EXCEPT ![Len(stack)].at = @ + 1]
              IN  /\ colorsMap' = visitColors(node, colorsMap)
                  /\ stack' = IF Has(node, "children")
                              THEN Append(advanced, [list |-> node.children, at |-> 1])
                              ELSE advanced
    /\ UNCHANGED <<nodes, parsedDesign, tokens, args, result, pc, heap>>
    /\ UNCHANGED serverVars

\* the call of traverse does not fit on the call stack: the engine throws a
\* RangeError, which nothing in extractColors catches
StackOverflow ==
    /\ pc = "traverse"
    /\ Len(stack) >= MaxStack
    /\ stack[Len(stack)].at <= Len(stack[Len(stack)].list)
    /\ result' = [error |-> "RangeError: Maximum call stack size exceeded"]
    /\ stack' = <<>>
    /\ pc' = "throw"
    /\ UNCHANGED <<nodes, parsedDesign, tokens, args, heap, colorsMap>>
    /\ UNCHANGED serverVars

\* a children.forEach is through its list: its traverse returns
ReturnFromTraverse ==
    /\ pc = "traverse"
    /\ Len(stack) > 1
    /\ stack[Len(stack)].at > Len(stack[Len(stack)].list)
    /\ stack' = SubSeq(stack, 1, Len(stack) - 1)
    /\ UNCHANGED <<nodes, parsedDesign, tokens, args, result, pc, heap, colorsMap>>
    /\ UNCHANGED serverVars

\* nodes.forEach is through the roots: return Array.from(colors.values())
ReturnColors ==
    /\ pc = "traverse"
    /\ Len(stack) = 1
    /\ stack[1].at > Len(stack[1].list)
    /\ result' = MapValues(colorsMap)
    /\ stack' = <<>>
    /\ pc' = "return"
    /\ UNCHANGED <<nodes, parsedDesign, tokens, args, heap, colorsMap>>
    /\ UNCHANGED serverVars

\* generateDesignTokens on the colours that were returned: the colours of the
\* DesignTokens it builds
GenerateColorTokens ==
    /\ pc = "return"
    /\ tokens' = [colors |-> generateColorTokens(result)]
    /\ pc' = "generated"
    /\ UNCHANGED <<nodes, parsedDesign, args, result, heap, stack, colorsMap>>
    /\ UNCHANGED serverVars

\* the host calls again, for the same nodes or for others: whatever the call
\* before left behind is still in memory
CallAgain ==
    /\ pc \in {"generated", "throw"}
    /\ nodes' \in GraphRoots
    /\ pc' = "enter"
    /\ UNCHANGED <<parsedDesign, tokens, args, result, heap, stack, colorsMap>>
    /\ UNCHANGED serverVars

NextGraph ==
    \/ EnterExtractColors
    \/ Traverse
    \/ StackOverflow
    \/ ReturnFromTraverse
    \/ ReturnColors
    \/ GenerateColorTokens
    \/ CallAgain

SpecGraph == InitGraph /\ [][NextGraph]_vars

(***************************************************************************)
(* Vocabulary of the properties                                            *)
(***************************************************************************)
\* the nodes of a forest, parent before children, children in given order
RECURSIVE PreOrder(_)
PreOrder(forest) ==
    IF forest = <<>> THEN <<>>
    ELSE LET node == Head(forest)
         IN  <<node>>
             \o (IF Has(node, "children") THEN PreOrder(node.children) ELSE <<>>)
             \o PreOrder(Tail(forest))

Range(seq) == {seq[i] : i \in 1..Len(seq)}

StrictlyAscending(seq) == \A i \in 1..Len(seq) - 1 : seq[i] < seq[i + 1]

StartsWith(str, prefix) ==
    Len(str) >= Len(prefix) /\ SubSeq(str, 1, Len(prefix)) = prefix

(***************************************************************************)
(* The document generators called in the order of the analysis handler:    *)
(* generateSOP, generateDesignKit with the SOP's text, then                *)
(* generateFeatureBreakdown with the SOP.  args holds the arguments, result *)
(* the calls settled so far.                                               *)
(***************************************************************************)
DocForests ==
    {<<>>,
     <<HeadingText, BodyText>>,
     <<[type |-> "FRAME", fills |-> <<Solid(Blue)>>, layoutMode |-> "VERTICAL",
        paddingLeft |-> 16, itemSpacing |-> 8, cornerRadius |-> Num(8),
        children |-> <<HeadingText>>]>>}

InitDocs ==
    /\ nodes = None
    /\ parsedDesign = None
    /\ \E f \in DocForests : tokens = generateDesignTokens(parseFigmaNodes(f))
    /\ \E openai \in BOOLEAN :
       \E components \in SeqsUpTo(ComponentShapes, MaxComponents) :
           args = [openai |-> openai, components |-> components]
    /\ result = <<>>
    /\ pc = "generateSOP"
    /\ heap = None
    /\ stack = <<>>
    /\ colorsMap = <<>>
    /\ ServerIdle

Settled(fn, reply, outcome) == [fn |-> fn, reply |-> reply] @@ outcome

CallGenerateSOP ==
    /\ pc = "generateSOP"
    /\ \E reply \in SopReplies :
           result' = Append(result, Settled("generateSOP", reply,
                         generateSOP(args.openai, reply, tokens, args.components)))
    /\ pc' = IF result'[1].settled = "resolved" THEN "generateDesignKit" ELSE "failed"
    /\ UNCHANGED <<nodes, parsedDesign, tokens, args, heap, stack, colorsMap>>
    /\ UNCHANGED serverVars

CallGenerateDesignKit ==
    /\ pc = "generateDesignKit"
    /\ \E reply \in DesignKitReplies :
           result' = Append(result, Settled("generateDesignKit", reply,
                         generateDesignKit(args.openai, reply, tokens, args.components)))
    /\ pc' = IF result'[2].settled = "resolved" THEN "generateFeatureBreakdown"
             ELSE "failed"
    /\ UNCHANGED <<nodes, parsedDesign, tokens, args, heap, stack, colorsMap>>
    /\ UNCHANGED serverVars

CallGenerateFeatureBreakdown ==
    /\ pc = "generateFeatureBreakdown"
    /\ \E reply \in BreakdownReplies :
           result' = Append(result, Settled("generateFeatureBreakdown", reply,
                         generateFeatureBreakdown(args.openai, reply, result[1].value,
                                                  args.components)))
    /\ pc' = IF result'[3].settled = "resolved" THEN "done" ELSE "failed"
    /\ UNCHANGED <<nodes, parsedDesign, tokens, args, heap, stack, colorsMap>>
    /\ UNCHANGED serverVars

NextDocs == CallGenerateSOP \/ CallGenerateDesignKit \/ CallGenerateFeatureBreakdown

SpecDocs == InitDocs /\ [][NextDocs]_vars

(***************************************************************************)
(* Reading the files of a session: GET /api/sessions/:sessionId/files/     *)
(* :fileName and its /download variant, on a disk that earlier analyses    *)
(* have written.                                                           *)
(***************************************************************************)
StoredSessions == {"session-1", "session-2"}

\* what the analysis of a session wrote into a file
StoredContent(sessionId, fileName) ==
    IF endsWith(fileName, ".json") THEN Stringify([sessionId |-> sessionId])
    ELSE <<fileName, sessionId>>

\* the disk after the analysis of session-1 wrote its first k1 files and that
\* of session-2 its first k2 (a failed write ends the saving)
DiskOf(k1, k2) ==
    [filePath \in {<<"session-1", writtenFiles[i]>> : i \in 1..k1}
                  \cup {<<"session-2", writtenFiles[i]>> : i \in 1..k2}
        |-> StoredContent(filePath[1], filePath[2])]

RequestedFiles ==
    {writtenFiles[i] : i \in 1..Len(writtenFiles)} \cup {"sop.md", "package.json"}

InitFiles ==
    /\ CallIdle
    /\ \E k1, k2 \in 0..Len(writtenFiles) : files = DiskOf(k1, k2)
    /\ \E route \in {"file", "download"}, sessionId \in StoredSessions,
          fileName \in RequestedFiles :
           requests = <<[route |-> route,
                         params |-> [sessionId |-> sessionId, fileName |-> fileName],
                         pc |-> "received", fsCalls |-> <<>>, response |-> None]>>
    /\ clock = 0
    /\ db = {}
    /\ figma = None
    /\ env = None

GetSessionFile(r) ==
    /\ requests[r].route = "file"
    /\ requests[r].pc = "received"
    /\ LET done == sessionFile(FALSE, requests[r].params, files)
       IN  requests' = [requests EXCEPT ![r].pc = "responded",
                                        ![r].fsCalls = done.fsCalls,
                                        ![r].response = done.response]
    /\ UNCHANGED <<clock, files, db, figma, env>>
    /\ UNCHANGED callVars

DownloadSessionFile(r) ==
    /\ requests[r].route = "download"
    /\ requests[r].pc = "received"
    /\ LET done == sessionFile(TRUE, requests[r].params, files)
       IN  requests' = [requests EXCEPT ![r].pc = "responded",
                                        ![r].fsCalls = done.fsCalls,
                                        ![r].response = done.response]
    /\ UNCHANGED <<clock, files, db, figma, env>>
    /\ UNCHANGED callVars

NextFiles ==
    \/ \E r \in DOMAIN requests : GetSessionFile(r)
    \/ \E r \in DOMAIN requests : DownloadSessionFile(r)

SpecFiles == InitFiles /\ [][NextFiles]_vars

(***************************************************************************)
(* The handlers of POST /api/file-info and POST /api/analyse-page.  A      *)
(* handler runs without interruption up to its next await; each action is  *)
(* one such stretch of one request.                                        *)
(***************************************************************************)
\* the request r goes on with the given fields set
Continue(r, fields) == requests' = [requests EXCEPT ![r] = fields @@ requests[r]]

Respond(r, response) == Continue(r, [pc |-> "responded", response |-> response])

Handling(r, route, position) ==
    requests[r].route = route /\ requests[r].pc = position

ReceiveFileInfo(r) ==
    /\ Handling(r, "file-info", "received")
    /\ LET body == requests[r].body
       IN  IF fileInfoRejection(body) # None
           THEN Respond(r, fileInfoRejection(body))
           ELSE Continue(r, [pc |-> "getFileInfo",
                             fileKey |-> extractFileKeyFromUrl(body.fileUrl)])
    /\ UNCHANGED <<clock, files, db, figma, env>>
    /\ UNCHANGED callVars

FileInfoSettled(r) ==
    /\ Handling(r, "file-info", "getFileInfo")
    /\ LET fileInfo == getFileInfo(figma)
       IN  IF fileInfo.settled = "rejected"
           THEN Respond(r, figmaErrorResponse(fileInfo.message, <<>>))
           ELSE LET pages == getPagesFromFile(fileInfo.value)
                IN  Respond(r, Response(200,
                        [success |-> TRUE, fileKey |-> requests[r].fileKey,
                         fileName |-> fileInfo.value.name,
                         pages |-> [i \in 1..Len(pages) |->
                                       [id |-> pages[i].id, name |-> pages[i].name]]]))
    /\ UNCHANGED <<clock, files, db, figma, env>>
    /\ UNCHANGED callVars

ReceiveAnalysePage(r) ==
    /\ Handling(r, "analyse-page", "received")
    /\ LET sessionId == "session-" \o ToString(clock)
           body == requests[r].body
       IN  IF analysePageRejection(body, sessionId) # None
           THEN Continue(r, [pc |-> "responded", sessionId |-> sessionId, log |-> <<>>,
                             response |-> analysePageRejection(body, sessionId)])
           ELSE Continue(r, [pc |-> "getFileInfo", sessionId |-> sessionId,
                             log |-> <<>>, fileUrl |-> body.fileUrl,
                             pageId |-> body.pageId,
                             fileKey |-> extractFileKeyFromUrl(body.fileUrl)])
    /\ UNCHANGED <<clock, files, db, figma, env>>
    /\ UNCHANGED callVars

\* faulty variant of AnalyseFileInfoSettled: the accessibility report, which
\* reads the tokens, is asked for together with the three analyses
AnalyseFileInfoSettled_ReportTooEarly(r) ==
    /\ Handling(r, "analyse-page", "getFileInfo")
    /\ LET fileInfo == getFileInfo(figma)
           sessionId == requests[r].sessionId
       IN  IF fileInfo.settled = "rejected"
           THEN Respond(r, figmaErrorResponse(fileInfo.message,
                                              [sessionId |-> sessionId]))
           ELSE LET page == findPage(getPagesFromFile(fileInfo.value),
                                     requests[r].pageId)
                IN  IF pageRejection(page, requests[r].pageId, sessionId) # None
                    THEN Respond(r, pageRejection(page, requests[r].pageId, sessionId))
                    ELSE LET forest == [i \in 1..Len(page.children) |->
                                           convertApiNodeToInternal(page.children[i])]
                         IN  Continue(r,
                                 [pc |-> "analyses",
                                  fileName |-> fileInfo.value.name,
                                  page |-> page,
                                  nodes |-> forest,
                                  parsedDesign |-> parseFigmaNodes(forest),
                                  log |-> <<"parseFigmaNodes returned",
                                            "analyzeLayers called",
                                            "detectComponents called",
                                            "generateNamingSuggestions called",
                                            "generateAccessibilityReport called">>])
    /\ UNCHANGED <<clock, files, db, figma, env>>
    /\ UNCHANGED callVars

\* getFileInfo settled: the page is found, its children are converted and
\* parsed, and the three analyses of Promise.all are started
AnalyseFileInfoSettled(r) ==
    /\ Handling(r, "analyse-page", "getFileInfo")
    /\ LET fileInfo == getFileInfo(figma)
           sessionId == requests[r].sessionId
       IN  IF fileInfo.settled = "rejected"
           THEN Respond(r, figmaErrorResponse(fileInfo.message,
                                              [sessionId |-> sessionId]))
           ELSE LET page == findPage(getPagesFromFile(fileInfo.value),
                                     requests[r].pageId)
                IN  IF pageRejection(page, requests[r].pageId, sessionId) # None
                    THEN Respond(r, pageRejection(page, requests[r].pageId, sessionId))
                    ELSE LET forest == [i \in 1..Len(page.children) |->
                                           convertApiNodeToInternal(page.children[i])]
                         IN  Continue(r,
                                 [pc |-> "analyses",
                                  fileName |-> fileInfo.value.name,
                                  page |-> page,
                                  nodes |-> forest,
                                  parsedDesign |-> parseFigmaNodes(forest),
                                  log |-> <<"parseFigmaNodes returned",
                                            "analyzeLayers called",
                                            "detectComponents called",
                                            "generateNamingSuggestions called">>])
    /\ UNCHANGED <<clock, files, db, figma, env>>
    /\ UNCHANGED callVars

\* Promise.all settled: tokens and code are generated, the accessibility
\* report is asked for
AnalysesSettled(r) ==
    /\ Handling(r, "analyse-page", "analyses")
    /\ \E layers \in RepliesTo(AnalysisReplies),
          detected \in RepliesTo(ComponentReplies),
          named \in RepliesTo(NamingReplies) :
           LET designTokens == generateDesignTokens(requests[r].parsedDesign)
           IN  Continue(r,
                   [pc |-> "accessibility",
                    analysis |-> analyzeLayers(env.OPENAI_API_KEY, layers),
                    components |-> detectComponents(env.OPENAI_API_KEY, detected),
                    namingSuggestions |->
                        generateNamingSuggestions(env.OPENAI_API_KEY, named),
                    tokens |-> designTokens,
                    code |-> generateCode(requests[r].nodes, designTokens),
                    log |-> requests[r].log
                            \o <<"generateDesignTokens returned", "generateCode called",
                                 "generateAccessibilityReport called">>])
    /\ UNCHANGED <<clock, files, db, figma, env>>
    /\ UNCHANGED callVars

AccessibilitySettled(r) ==
    /\ Handling(r, "analyse-page", "accessibility")
    /\ \E reply \in RepliesTo(AccessibilityReplies) :
           Continue(r, [pc |-> "sop",
                        accessibilityReport |->
                            generateAccessibilityReport(env.OPENAI_API_KEY, reply),
                        log |-> Append(requests[r].log, "generateSOP called")])
    /\ UNCHANGED <<clock, files, db, figma, env>>
    /\ UNCHANGED callVars

\* the outer catch of the analysis handler
Failure(r, message) ==
    Respond(r, Response(500, [success |-> FALSE, error |-> message,
                              sessionId |-> requests[r].sessionId]))

SopSettled(r) ==
    /\ Handling(r, "analyse-page", "sop")
    /\ \E reply \in RepliesTo(HandlerSopReplies) :
           LET sop == generateSOP(env.OPENAI_API_KEY, reply, requests[r].tokens,
                                  requests[r].components)
           IN  IF sop.settled = "rejected"
               THEN Failure(r, "Cannot read properties of undefined")
               ELSE Continue(r, [pc |-> "designKit", sop |-> sop.value,
                                 log |-> Append(requests[r].log,
                                                "generateDesignKit called")])
    /\ UNCHANGED <<clock, files, db, figma, env>>
    /\ UNCHANGED callVars

DesignKitSettled(r) ==
    /\ Handling(r, "analyse-page", "designKit")
    /\ \E reply \in RepliesTo(HandlerDesignKitReplies) :
           LET designKit == generateDesignKit(env.OPENAI_API_KEY, reply,
                                              requests[r].tokens,
                                              requests[r].components)
           IN  IF designKit.settled = "rejected"
               THEN Failure(r, "Cannot read properties of undefined")
               ELSE Continue(r, [pc |-> "featureBreakdown",
                                 designKit |-> designKit.value,
                                 log |-> Append(requests[r].log,
                                                "generateFeatureBreakdown called")])
    /\ UNCHANGED <<clock, files, db, figma, env>>
    /\ UNCHANGED callVars

\* the last document settled: the result is built, the files are saved and
\* createAnalysis is called
FeatureBreakdownSettled(r) ==
    /\ Handling(r, "analyse-page", "featureBreakdown")
    /\ \E reply \in RepliesTo(HandlerBreakdownReplies), saved \in SaveOutcomes :
           LET featureBreakdown ==
                   generateFeatureBreakdown(env.OPENAI_API_KEY, reply,
                                            requests[r].sop, requests[r].components)
           IN  IF featureBreakdown.settled = "rejected"
               THEN /\ Failure(r, "Cannot read properties of undefined")
                    /\ UNCHANGED files
               ELSE LET locals ==
                            [featureBreakdown |-> featureBreakdown.value]
                                @@ requests[r]
                        built == resultOf(locals, ToString(clock))
                        sessionId == requests[r].sessionId
                    IN  IF saved = -1
                        THEN /\ Failure(r, "EACCES: permission denied, mkdir")
                             /\ UNCHANGED files
                        ELSE /\ files' =
                                    [filePath \in {<<sessionId, writtenFiles[i]>> :
                                                      i \in 1..saved} |->
                                        writtenContent(filePath[2],
                                                       [result |-> built] @@ locals)]
                                    @@ files
                             /\ Continue(r,
                                    [pc |-> "createAnalysis",
                                     featureBreakdown |-> featureBreakdown.value,
                                     result |->
                                        IF saved = Len(writtenFiles)
                                        THEN built
                                             @@ [outputPath |-> <<"output", sessionId>>,
                                                 files |-> writtenFiles]
                                        ELSE built])
    /\ UNCHANGED <<clock, db, figma, env>>
    /\ UNCHANGED callVars

\* createAnalysis settled: the INSERT went through, or it was rejected for a
\* session_id the table holds already or for a lost connection
CreateAnalysisSettled(r) ==
    /\ Handling(r, "analyse-page", "createAnalysis")
    /\ \E saved \in BOOLEAN :
           /\ saved => \A row \in db : row.session_id # requests[r].sessionId
           /\ db' = IF saved THEN db \cup {Row(requests[r])} ELSE db
           /\ Continue(r, [pc |-> "responded", saved |-> saved,
                           response |-> analysisResponse(saved, requests[r].result,
                                                         requests[r].sessionId)])
    /\ UNCHANGED <<clock, files, figma, env>>
    /\ UNCHANGED callVars

\* a millisecond passes; only the stretches that read Date.now() can tell
Tick ==
    /\ clock < MaxClock
    /\ \E r \in DOMAIN requests :
           /\ requests[r].route = "analyse-page"
           /\ requests[r].pc \in {"received", "featureBreakdown"}
    /\ clock' = clock + 1
    /\ UNCHANGED <<requests, files, db, figma, env>>
    /\ UNCHANGED callVars

NextAnalyse ==
    \/ \E r \in DOMAIN requests : ReceiveFileInfo(r)
    \/ \E r \in DOMAIN requests : FileInfoSettled(r)
    \/ \E r \in DOMAIN requests : ReceiveAnalysePage(r)
    \/ \E r \in DOMAIN requests : AnalyseFileInfoSettled(r)
    \/ \E r \in DOMAIN requests : AnalysesSettled(r)
    \/ \E r \in DOMAIN requests : AccessibilitySettled(r)
    \/ \E r \in DOMAIN requests : SopSettled(r)
    \/ \E r \in DOMAIN requests : DesignKitSettled(r)
    \/ \E r \in DOMAIN requests : FeatureBreakdownSettled(r)
    \/ \E r \in DOMAIN requests : CreateAnalysisSettled(r)
    \/ Tick

\* an earlier analysis left a row with a session id the clock can give again
EarlierRow ==
    [url |-> "https://figma.com/design/abc/Home", session_id |-> "session-1",
     file_key |-> "abc", page_id |-> "0:1", page_name |-> "Page 1"]

\* one request at a time: every body against one file, every answer of Figma
\* and every design against the well-formed body, the LLM against one design
InitAnalyse ==
    /\ CallIdle
    /\ clock = 0
    /\ files = <<>>
    /\ \/ /\ \/ \E body \in FileInfoBodies : requests = <<Arrived("file-info", body)>>
             \/ \E body \in AnalysePageBodies :
                    requests = <<Arrived("analyse-page", body)>>
          /\ figma = SampleFile
          /\ env = [OPENAI_API_KEY |-> FALSE]
          /\ db = {}
       \/ /\ \E route \in {"file-info", "analyse-page"} :
                 requests = <<Arrived(route, GoodBody)>>
          /\ figma \in FigmaErrors
          /\ env = [OPENAI_API_KEY |-> FALSE]
          /\ db = {}
       \/ /\ requests = <<Arrived("analyse-page", GoodBody)>>
          /\ \E forest \in ApiForests : figma = FigmaFile(forest)
          /\ env = [OPENAI_API_KEY |-> FALSE]
          /\ db \in {{}, {EarlierRow}}
       \/ /\ requests = <<Arrived("analyse-page", GoodBody)>>
          /\ figma = SampleFile
          /\ env = [OPENAI_API_KEY |-> TRUE]
          /\ db = {}

SpecAnalyse == InitAnalyse /\ [][NextAnalyse]_vars

\* several analysis requests for one file arrive at a server without a key
InitSessions ==
    /\ CallIdle
    /\ clock = 0
    /\ files = <<>>
    /\ db = {}
    /\ figma = SampleFile
    /\ env = [OPENAI_API_KEY |-> FALSE]
    /\ requests = [r \in 1..MaxRequests |-> Arrived("analyse-page", GoodBody)]

NextSessions ==
    \/ \E r \in DOMAIN requests : ReceiveAnalysePage(r)
    \/ \E r \in DOMAIN requests : AnalyseFileInfoSettled(r)
    \/ \E r \in DOMAIN requests : AnalysesSettled(r)
    \/ \E r \in DOMAIN requests : AccessibilitySettled(r)
    \/ \E r \in DOMAIN requests : SopSettled(r)
    \/ \E r \in DOMAIN requests : DesignKitSettled(r)
    \/ \E r \in DOMAIN requests : FeatureBreakdownSettled(r)
    \/ \E r \in DOMAIN requests : CreateAnalysisSettled(r)
    \/ Tick

SpecSessions == InitSessions /\ [][NextSessions]_vars

Parsed == pc \in {"parsed", "done"}

Returned(fn) == pc = "return" /\ args.fn = fn

\* the (fontFamily, fontSize, fontWeight) of a style, absent fields counted
\* as "Inter", 16 and 400
TripleOf(style) ==
    <<IF Has(style, "fontFamily") THEN style.fontFamily ELSE "Inter",
      IF Has(style, "fontSize") THEN style.fontSize ELSE 16,
      IF Has(style, "fontWeight") THEN style.fontWeight ELSE 400>>

StyledTexts(forest) ==
    SelectSeq(PreOrder(forest), LAMBDA n : n.type = "TEXT" /\ Has(n, "style"))

\* the scenario forest: a FRAME with one solid fill and two TEXT children
ScenarioForest(fill) ==
    <<[type |-> "FRAME", fills |-> <<Solid(fill)>>,
       children |-> <<HeadingText, BodyText>>]>>

(***************************************************************************)
(* Properties                                                              *)
(***************************************************************************)

C2_StylesUniqueByTriple ==
    Parsed =>
        \A i, j \in 1..Len(parsedDesign.textStyles) :
            i # j => TripleOf(parsedDesign.textStyles[i])
                        # TripleOf(parsedDesign.textStyles[j])

\* C3: when several styled TEXT nodes share (fontFamily, fontSize, fontWeight),
\* every extracted style of that triple carries the lineHeight, letterSpacing
\* and textCase of the node visited first in pre-order.
C3_FirstStyleWins ==
    Parsed =>
        \A i \in 1..Len(parsedDesign.textStyles) :
            LET s == parsedDesign.textStyles[i]
                same == SelectSeq(StyledTexts(nodes),
                                  LAMBDA n : TripleOf(n.style) = TripleOf(s))
            IN  same # <<>> /\ s = makeTextStyle(same[1].style)

\* C4: borderRadius of parseFigmaNodes is strictly ascending and holds exactly
\* the values seen: every numeric cornerRadius and each of the four corners of
\* every four-corner cornerRadius, at any depth.
RadiiOf(node) ==
    IF ~Has(node, "cornerRadius") THEN {}
    ELSE IF Has(node.cornerRadius, "num") THEN {node.cornerRadius.num}
    ELSE {node.cornerRadius.topLeft, node.cornerRadius.topRight,
          node.cornerRadius.bottomLeft, node.cornerRadius.bottomRight}

C4_BorderRadiusSortedExact ==
    Parsed =>
        /\ StrictlyAscending(parsedDesign.borderRadius)
        /\ Range(parsedDesign.borderRadius)
              = UNION {RadiiOf(n) : n \in Range(PreOrder(nodes))}

\* a numeric radius below a four-corner radius, with a value seen twice
C4_Witness ==
    /\ pc = "parsed"
    /\ nodes = <<[type |-> "FRAME", cornerRadius |-> Corners(8, 0, 16, 4),
                  children |-> <<[type |-> "RECTANGLE", cornerRadius |-> Num(8)],
                                 [type |-> "FRAME",
                                  cornerRadius |-> Corners(12, 12, 2, 20)]>>]>>
    /\ parsedDesign.borderRadius = <<0, 2, 4, 8, 12, 16, 20>>

\* C5: generateColorTokens gives the colour at 0-based index i the category
\* and name of the first matching rule: B < 0.3 neutral, neutral-{i+1}-dark;
\* B > 0.7 neutral, neutral-{i+1}-light; r > g and r > b primary,
\* primary-{i+1}; g > r and g > b secondary, secondary-{i+1}; otherwise
\* semantic, semantic-{i+1}; all comparisons strict.
ColorRule(c) ==
    LET B1000 == 299 * c.r + 587 * c.g + 114 * c.b
    IN  CASE B1000 < 300 * Den -> "dark"
          [] B1000 >= 300 * Den /\ B1000 > 700 * Den -> "light"
          [] B1000 >= 300 * Den /\ B1000 <= 700 * Den /\ c.r > c.g /\ c.r > c.b
                -> "primary"
          [] B1000 >= 300 * Den /\ B1000 <= 700 * Den /\ ~(c.r > c.g /\ c.r > c.b)
                /\ c.g > c.r /\ c.g > c.b -> "secondary"
          [] OTHER -> "semantic"

RuleCategory(rule) == IF rule \in {"dark", "light"} THEN "neutral" ELSE rule

RuleName(rule, i) ==
    CASE rule = "dark" -> "neutral-" \o ToString(i + 1) \o "-dark"
      [] rule = "light" -> "neutral-" \o ToString(i + 1) \o "-light"
      [] OTHER -> rule \o "-" \o ToString(i + 1)

C5_ColorRules ==
    Returned("generateColorTokens") =>
        /\ Len(result) = Len(args.arg)
        /\ \A k \in 1..Len(result) :
              /\ result[k].category = RuleCategory(ColorRule(args.arg[k]))
              /\ result[k].name = RuleName(ColorRule(args.arg[k]), k - 1)

\* a colour with B exactly 0.3 and r largest, at index 1, was named primary-2
C5_Witness ==
    /\ Returned("generateColorTokens")
    /\ Len(result) = 2
    /\ args.arg[2] = ParsedColorOf(2040, 0, 1360)
    /\ result[2].name = "primary-2"
    /\ args.arg[1] = ParsedColorOf(1785, 1785, 1785)
    /\ result[1].name = "semantic-1"

\* C6: the name of every colour token begins with its category followed by "-".
C6_NameAgreesWithCategory ==
    Returned("generateColorTokens") =>
        \A k \in 1..Len(result) :
            StartsWith(result[k].name, result[k].category \o "-")

\* a secondary token with B exactly 0.7, followed by a neutral one
C6_Witness ==
    /\ Returned("generateColorTokens")
    /\ Len(result) = 2
    /\ args.arg[1] = ParsedColorOf(510, 2550, 1190)
    /\ result[1].category = "secondary"
    /\ result[2].category = "neutral"

\* C7 as stated: the single colour token of the scenario forest with fill
\* #3B82F6 has category primary, secondary or neutral.
C7_ScenarioCategoryAsStated ==
    (pc = "done" /\ nodes = ScenarioForest(Blue)) =>
        /\ Len(tokens.colors) = 1
        /\ tokens.colors[1].category \in {"primary", "secondary", "neutral"}

\* C7 amended: the single colour token of the scenario forest with fill
\* #3B82F6 has value #3B82F6, category semantic and name semantic-1.
C7_ScenarioCategory ==
    (pc = "done" /\ nodes = ScenarioForest(Blue)) =>
        /\ Len(tokens.colors) = 1
        /\ tokens.colors[1].hex = "#3B82F6"
        /\ tokens.colors[1].category = "semantic"
        /\ tokens.colors[1].name = "semantic-1"

C7_Witness ==
    /\ pc = "done"
    /\ nodes = ScenarioForest(Blue)
    /\ Len(tokens.colors) = 1

\* C8: the scenario forest (a FRAME with a solid fill, TEXT children styled
\* {Inter,32,700} and {Inter,16,400}, no padding, itemSpacing, layoutMode or
\* cornerRadius) yields the typography tokens heading-bold and body-regular
\* in that order, one colour token, no spacing and no border-radius token.
C8_ScenarioTokens ==
    (pc = "done" /\ \E fill \in {Blue, Red} : nodes = ScenarioForest(fill)) =>
        /\ Len(tokens.typography) = 2
        /\ tokens.typography[1].name = "heading-bold"
        /\ tokens.typography[2].name = "body-regular"
        /\ Len(tokens.colors) = 1
        /\ tokens.spacing = <<>>
        /\ tokens.borderRadius = <<>>

C8_Witness ==
    /\ pc = "done"
    /\ nodes = ScenarioForest(Red)
    /\ Len(tokens.typography) = 2
    /\ tokens.colors[1].hex = "#CC3333"

\* C9: generateSpacingTokens deduplicates and sorts its input ascending and
\* names the value v at 0-based position k of that sequence none if v = 0,
\* xs-k if v <= 4, sm-k if v <= 8, md-k if v <= 16, lg-k if v <= 24, xl-k if
\* v <= 32, otherwise xxl-k; every token has category gap; {0, 2, 6, 20} in
\* any order and with repeats gives none, xs-1, sm-2, lg-3.
SpacingBand(v) ==
    CASE v = 0 -> "none"
      [] v # 0 /\ v <= 4 -> "xs"
      [] 4 < v /\ v <= 8 -> "sm"
      [] 8 < v /\ v <= 16 -> "md"
      [] 16 < v /\ v <= 24 -> "lg"
      [] 24 < v /\ v <= 32 -> "xl"
      [] OTHER -> "xxl"

C9_SpacingTokens ==
    Returned("generateSpacingTokens") =>
        /\ StrictlyAscending([k \in 1..Len(result) |-> result[k].value])
        /\ {result[k].value : k \in 1..Len(result)} = Range(args.arg)
        /\ \A k \in 1..Len(result) :
              /\ result[k].category = "gap"
              /\ result[k].name =
                    IF SpacingBand(result[k].value) = "none" THEN "none"
                    ELSE SpacingBand(result[k].value) \o "-" \o ToString(k - 1)
        /\ Range(args.arg) = {0, 2, 6, 20} =>
              [k \in 1..Len(result) |-> result[k].name]
                  = <<"none", "xs-1", "sm-2", "lg-3">>

\* {0, 2, 6, 20} given unsorted and with a repeat
C9_Witness ==
    /\ Returned("generateSpacingTokens")
    /\ args.arg = <<20, 6, 20, 0, 2>>
    /\ Len(result) = 4
    /\ result[4].name = "lg-3"

\* C10: generateTypographyTokens names a style by font-size band (>= 32
\* heading, >= 24 subheading, >= 18 body-large, >= 16 body, >= 14 body-small,
\* otherwise caption) followed by "-" and the band's weight qualifier:
\* heading bold from 700, subheading semibold from 600, the others medium
\* from 500, regular below.
SizeBand(size) ==
    CASE size >= 32 -> "heading"
      [] 24 <= size /\ size < 32 -> "subheading"
      [] 18 <= size /\ size < 24 -> "body-large"
      [] 16 <= size /\ size < 18 -> "body"
      [] 14 <= size /\ size < 16 -> "body-small"
      [] OTHER -> "caption"

WeightQualifier(band, weight) ==
    CASE band = "heading" -> IF weight >= 700 THEN "bold" ELSE "regular"
      [] band = "subheading" -> IF weight >= 600 THEN "semibold" ELSE "regular"
      [] OTHER -> IF weight >= 500 THEN "medium" ELSE "regular"

C10_TypographyNames ==
    Returned("generateTypographyTokens") =>
        \A k \in 1..Len(result) :
            result[k].name =
                SizeBand(result[k].fontSize) \o "-"
                    \o WeightQualifier(SizeBand(result[k].fontSize),
                                       result[k].fontWeight)

\* a subheading just below the semibold weight
C10_Witness ==
    /\ Returned("generateTypographyTokens")
    /\ args.arg = <<ParsedStyle("Inter", 24, 599, 24)>>
    /\ Len(result) = 1
    /\ result[1].name = "subheading-regular"

\* C11: extractColors returns the colours in order of first appearance under
\* a pre-order walk that inspects a node's fills, then its strokes, then its
\* effects, before its children; of several paints with the same hex the entry
\* keeps the r, g, b and alpha of the first (alpha 1 when the colour has
\* none).
IsSolidPaint(paint) ==
    Has(paint, "type") /\ paint.type = "SOLID" /\ Has(paint, "color")

ColorsIn(paints, Counts(_)) ==
    LET kept == SelectSeq(paints, Counts)
    IN  [i \in 1..Len(kept) |-> kept[i].color]

PaintColorsOf(node) ==
    (IF Has(node, "fills") THEN ColorsIn(node.fills, IsSolidPaint) ELSE <<>>)
    \o (IF Has(node, "strokes") THEN ColorsIn(node.strokes, IsSolidPaint) ELSE <<>>)
    \o (IF Has(node, "effects")
        THEN ColorsIn(node.effects, LAMBDA e : Has(e, "color")) ELSE <<>>)

RECURSIVE Flatten(_)
Flatten(seqs) ==
    IF seqs = <<>> THEN <<>> ELSE Head(seqs) \o Flatten(Tail(seqs))

PaintColors(forest) ==
    LET order == PreOrder(forest)
    IN  Flatten([i \in 1..Len(order) |-> PaintColorsOf(order[i])])

HexOf(color) == rgbToHex(color.r, color.g, color.b)

\* the entries of a sequence that no earlier entry matches in key
FirstOfEach(seq, Key(_)) ==
    LET firsts == {i \in 1..Len(seq) :
                     \A j \in 1..(i - 1) : Key(seq[j]) # Key(seq[i])}
        Nth(k) == CHOOSE i \in firsts : Cardinality({j \in firsts : j <= i}) = k
    IN  [k \in 1..Cardinality(firsts) |-> seq[Nth(k)]]

Channels(color) ==
    [r |-> color.r, g |-> color.g, b |-> color.b,
     a |-> IF Has(color, "a") THEN color.a ELSE Den]

C11_ColorsFirstSeenOrder ==
    Parsed =>
        LET expected == FirstOfEach(PaintColors(nodes), HexOf)
            got == parsedDesign.colors
        IN  /\ Len(got) = Len(expected)
            /\ \A i \in 1..Len(got) :
                  /\ Channels(got[i]) = Channels(expected[i])
                  /\ got[i].hex = HexOf(expected[i])

\* a stroke of the parent precedes the child's fills, and a later paint of the
\* first hex with another alpha left the first entry as it was
C11_Witness ==
    /\ pc = "parsed"
    /\ nodes = <<[type |-> "RECTANGLE", fills |-> <<[type |-> "GRADIENT_LINEAR"]>>,
                  strokes |-> <<Solid(Blue)>>,
                  children |-> <<[type |-> "RECTANGLE", fills |-> <<Solid(BlueNear)>>,
                                  strokes |-> <<Solid(Red)>>]>>]>>
    /\ Len(parsedDesign.colors) = 2
    /\ parsedDesign.colors[1].r = Blue.r
    /\ parsedDesign.colors[1].a = Den
    /\ parsedDesign.colors[2].hex = "#CC3333"

\* C12: a fill or stroke entry contributes a colour only if its type is SOLID
\* and it has a color; an effect entry contributes whenever it has a color,
\* whatever its type; an entry without a color never contributes.
EntryHexes(node, field, Counts(_)) ==
    IF Has(node, field)
    THEN {HexOf(node[field][i].color) :
            i \in {j \in 1..Len(node[field]) : Counts(node[field][j])}}
    ELSE {}

C12_ContributingPaints ==
    Parsed =>
        {parsedDesign.colors[i].hex : i \in 1..Len(parsedDesign.colors)}
          = UNION {EntryHexes(n, "fills", IsSolidPaint)
                     \cup EntryHexes(n, "strokes", IsSolidPaint)
                     \cup EntryHexes(n, "effects", LAMBDA e : Has(e, "color")) :
                   n \in Range(PreOrder(nodes))}

\* an IMAGE fill with a color and a blur without one gave nothing, a
\* DROP_SHADOW with a color gave its colour
C12_Witness ==
    /\ pc = "parsed"
    /\ nodes = <<[type |-> "RECTANGLE", fills |-> <<[type |-> "IMAGE", color |-> Red]>>,
                  effects |-> <<[type |-> "DROP_SHADOW", color |-> Shadow],
                                [type |-> "LAYER_BLUR"]>>]>>
    /\ Len(parsedDesign.colors) = 1
    /\ parsedDesign.colors[1].hex = "#000000"
    /\ parsedDesign.colors[1].rgba = "rgba(0, 0, 0, 0.20)"

\* C13: for each style extractTextStyles returns, lineHeight is the node's
\* numeric lineHeight whenever that is a number (0 included), the value field
\* when it is a {value, unit} object, and the style's fontSize (after the
\* default 16) when it is absent; letterSpacing is the number, or the value
\* field, or 0 when absent.
ClaimedLineHeight(style) ==
    IF Has(style, "lineHeight")
    THEN IF typeof(style.lineHeight) = "number"
         THEN style.lineHeight.num
         ELSE style.lineHeight.value
    ELSE TripleOf(style)[2]

ClaimedLetterSpacing(style) ==
    IF Has(style, "letterSpacing")
    THEN IF typeof(style.letterSpacing) = "number"
         THEN style.letterSpacing.num
         ELSE style.letterSpacing.value
    ELSE 0

C13_LineHeightLetterSpacing ==
    Parsed =>
        \A i \in 1..Len(parsedDesign.textStyles) :
            LET got == parsedDesign.textStyles[i]
            IN  \E n \in Range(StyledTexts(nodes)) :
                    /\ TripleOf(n.style) = TripleOf(got)
                    /\ got.lineHeight = ClaimedLineHeight(n.style)
                    /\ got.letterSpacing = ClaimedLetterSpacing(n.style)

\* C14: extractSpacing emits a record for a node exactly when one of its
\* paddings is non-zero or its itemSpacing is defined; the record has the
\* padding part (four sides, absent ones 0) exactly when some padding is
\* non-zero and the gap part exactly when itemSpacing is defined, 0 included;
\* records come in pre-order and are not deduplicated.
PaddingSides == {"paddingLeft", "paddingRight", "paddingTop", "paddingBottom"}

SideOf(node, side) == IF Has(node, side) THEN node[side] ELSE 0

PaddingOf(node) ==
    [left   |-> SideOf(node, "paddingLeft"),  right  |-> SideOf(node, "paddingRight"),
     top    |-> SideOf(node, "paddingTop"),   bottom |-> SideOf(node, "paddingBottom")]

SomePadding(node) == \E side \in PaddingSides : SideOf(node, side) # 0

C14_SpacingRecords ==
    Parsed =>
        LET emitting == SelectSeq(PreOrder(nodes),
                                  LAMBDA n : SomePadding(n) \/ Has(n, "itemSpacing"))
            got == parsedDesign.spacing
        IN  /\ Len(got) = Len(emitting)
            /\ \A i \in 1..Len(got) :
                  /\ DOMAIN got[i] \subseteq {"padding", "gap"}
                  /\ "padding" \in DOMAIN got[i] <=> SomePadding(emitting[i])
                  /\ "padding" \in DOMAIN got[i] => got[i].padding = PaddingOf(emitting[i])
                  /\ "gap" \in DOMAIN got[i] <=> Has(emitting[i], "itemSpacing")
                  /\ "gap" \in DOMAIN got[i] => got[i].gap = emitting[i].itemSpacing

\* itemSpacing 0 gave a gap of 0 without a padding part, one non-zero side
\* gave all four sides, and the two equal children gave two equal records
C14_Witness ==
    /\ pc = "parsed"
    /\ nodes = <<[type |-> "FRAME", itemSpacing |-> 0,
                  children |-> <<[type |-> "FRAME", paddingLeft |-> 16],
                                 [type |-> "FRAME", paddingLeft |-> 16]>>]>>
    /\ Len(parsedDesign.spacing) = 3
    /\ DOMAIN parsedDesign.spacing[1] = {"gap"}
    /\ parsedDesign.spacing[1].gap = 0
    /\ parsedDesign.spacing[2] = parsedDesign.spacing[3]
    /\ parsedDesign.spacing[2].padding = [left |-> 16, right |-> 0, top |-> 0, bottom |-> 0]

\* C15: extractAutoLayoutInfo emits exactly one record per node whose
\* layoutMode is HORIZONTAL or VERTICAL, in pre-order and without
\* deduplication, with direction the layoutMode and absent padding sides and
\* itemSpacing as 0; a node without layoutMode or with NONE gives no record
\* but its descendants are visited.
C15_AutoLayoutRecords ==
    Parsed =>
        LET laidOut == SelectSeq(PreOrder(nodes),
                                 LAMBDA n : /\ Has(n, "layoutMode")
                                            /\ n.layoutMode \in {"HORIZONTAL", "VERTICAL"})
        IN  parsedDesign.autoLayouts =
                [i \in 1..Len(laidOut) |->
                    [direction |-> laidOut[i].layoutMode,
                     padding   |-> PaddingOf(laidOut[i]),
                     spacing   |-> SideOf(laidOut[i], "itemSpacing")]]

\* the NONE root gave no record, its two equal VERTICAL children one each
C15_Witness ==
    /\ pc = "parsed"
    /\ nodes = <<[type |-> "FRAME", layoutMode |-> "NONE", paddingTop |-> 24,
                  children |-> <<[type |-> "FRAME", layoutMode |-> "VERTICAL"],
                                 [type |-> "FRAME", layoutMode |-> "VERTICAL"]>>]>>
    /\ parsedDesign.autoLayouts =
           LET record == [direction |-> "VERTICAL",
                          padding   |-> [left |-> 0, right |-> 0, top |-> 0, bottom |-> 0],
                          spacing   |-> 0]
           IN  <<record, record>>

RadiusBand(v) ==
    CASE v = 0 -> "none"
      [] v # 0 /\ v <= 4 -> "sm"
      [] 4 < v /\ v <= 8 -> "md"
      [] 8 < v /\ v <= 16 -> "lg"
      [] OTHER -> "xl"

C17_BorderRadiusTokens ==
    Returned("generateBorderRadiusTokens") =>
        LET values == [k \in 1..Len(result) |-> result[k].value]
        IN  /\ StrictlyAscending(values)
            /\ Range(values) = Range(args.arg)
            /\ \A k \in 1..Len(result) :
                  /\ DOMAIN result[k] = {"name", "value"}
                  /\ result[k].name =
                        IF RadiusBand(values[k]) = "none" THEN "none"
                        ELSE RadiusBand(values[k]) \o "-" \o ToString(k - 1)
            /\ StrictlyAscending(args.arg) => values = args.arg

\* the radii parseFigmaNodes extracts from a frame with corners 12, 12, 2, 20
\* and a rectangle of radius 8
C17_Witness ==
    /\ Returned("generateBorderRadiusTokens")
    /\ args.arg = parseFigmaNodes(<<[type |-> "FRAME",
                                     cornerRadius |-> Corners(12, 12, 2, 20)],
                                    [type |-> "RECTANGLE",
                                     cornerRadius |-> Num(8)]>>).borderRadius
    /\ args.arg = <<2, 8, 12, 20>>
    /\ [k \in 1..Len(result) |-> result[k].name] = <<"sm-0", "md-1", "lg-2", "xl-3">>

\* C18: on the empty forest the five extractions and parseFigmaNodes return
\* empty results, and generateDesignTokens on that result returns empty
\* colors, typography, spacing and borderRadius.
C18_EmptyForest ==
    nodes = <<>> =>
        /\ Parsed =>
              /\ parsedDesign = [textStyles |-> <<>>, colors |-> <<>>, spacing |-> <<>>,
                                 borderRadius |-> <<>>, autoLayouts |-> <<>>]
              /\ extractTextStyles(nodes) = <<>>
              /\ extractColors(nodes) = <<>>
              /\ extractAutoLayoutInfo(nodes) = <<>>
              /\ extractSpacing(nodes) = <<>>
        /\ pc = "done" =>
              tokens = [colors |-> <<>>, typography |-> <<>>, spacing |-> <<>>,
                        borderRadius |-> <<>>]

C18_Witness ==
    /\ pc = "done"
    /\ nodes = <<>>
    /\ parsedDesign.colors = <<>>
    /\ tokens.spacing = <<>>

\* C19: on a node structure with a cycle an extraction stops with a "cyclic
\* structure" error instead of recursing without end.
ChildRefs(ref) == IF Has(heap[ref], "children") THEN Range(heap[ref].children) ELSE {}

\* the references reachable from a set of references
RECURSIVE ReachableFrom(_)
ReachableFrom(refs) ==
    LET more == refs \cup UNION {ChildRefs(r) : r \in refs}
    IN  IF more = refs THEN refs ELSE ReachableFrom(more)

CyclicInput ==
    \E r \in ReachableFrom(Range(nodes)) : r \in ReachableFrom(ChildRefs(r))

C19_CyclicRejected ==
    (pc \in {"return", "throw"} /\ CyclicInput) =>
        (pc = "throw" /\ result = [error |-> "cyclic structure"])

\* C20: a token generator given a numeric field that is not finite rejects
\* the input with an error and emits no token for it.
C20_NonFiniteRejected ==
    (pc \in {"return", "throw"} /\ args.fn = "generateSpacingTokens"
        /\ Infinity \in Range(args.arg)) =>
        pc = "throw"

\* C27: within one result of generateTypographyTokens no two tokens have the
\* same name, so the fontSize map of the Tailwind config has one entry per
\* typography token.
C27_TypographyNamesUnique ==
    Returned("generateTypographyTokens") =>
        /\ \A i, j \in 1..Len(result) : i # j => result[i].name # result[j].name
        /\ Len(fontSizeTokensOf(result, <<>>)) = Len(result)


\* the default document a generator builds from its own arguments
DefaultDocument(fn) ==
    CASE fn = "generateSOP" -> generateDefaultSOP(tokens, args.components)
      [] fn = "generateDesignKit" -> generateDefaultDesignKit(tokens)
      [] fn = "generateFeatureBreakdown" ->
             generateDefaultFeatureBreakdown(result[1].value, args.components)

\* the call cannot give an LLM document: no key, or the try block threw
FellBack(call) ==
    \/ ~args.openai
    \/ contextThrows(args.components)
    \/ call.reply.kind # "json"
    \/ CASE call.fn = "generateSOP" -> sopFormatThrows(call.reply.data)
         [] call.fn = "generateDesignKit" -> designKitFormatThrows(call.reply.data)
         [] call.fn = "generateFeatureBreakdown" ->
                breakdownFormatThrows(call.reply.data)

\* C23: generateSOP, generateDesignKit and generateFeatureBreakdown always
\* resolve and never reject, whatever arguments the pipeline passes (an SOP
\* parsed from LLM output included); without a key, on a failed call, an empty
\* reply or a reply that cannot be parsed or formatted, the result is the
\* default document built from the function's own arguments.
C23_DocumentsAlwaysResolve ==
    \A i \in 1..Len(result) :
        /\ result[i].settled = "resolved"
        /\ FellBack(result[i]) =>
               result[i].value = DefaultDocument(result[i].fn)


\* a request for a session file that has been answered
FileRequest(r) ==
    requests[r].route \in {"file", "download"} /\ requests[r].pc = "responded"

\* the response carries what a file holds
ReturnsContent(r) == requests[r].response.status = 200

\* C30: the file route and the download route return content only for
\* accessibility-report.json, analysis-results.json, DesignKit.md and SOP.md;
\* every other name is answered 403 'File not allowed' before the file system
\* is consulted, even when the file exists in the session directory.
C30_OnlyAllowedFiles ==
    \A r \in DOMAIN requests :
        FileRequest(r) =>
            LET fileName == requests[r].params.fileName
                allowed == fileName \in {"accessibility-report.json",
                                         "analysis-results.json", "DesignKit.md",
                                         "SOP.md"}
            IN  /\ ReturnsContent(r) => allowed
                /\ ~allowed =>
                      /\ requests[r].response =
                             Response(403, [success |-> FALSE,
                                            error |-> "File not allowed"])
                      /\ requests[r].fsCalls = <<>>

\* design-tokens.json exists in the session directory and is refused
C30_Witness ==
    \E r \in DOMAIN requests :
        /\ FileRequest(r)
        /\ requests[r].params.fileName \in {"design-tokens.json", "feature-breakdown.md"}
        /\ <<requests[r].params.sessionId, requests[r].params.fileName>> \in DOMAIN files
        /\ requests[r].response.status = 403

\* the generators downstream of the core pipeline
DownstreamGenerators ==
    {"analyzeLayers", "detectComponents", "generateNamingSuggestions", "generateCode",
     "generateAccessibilityReport", "generateSOP", "generateDesignKit",
     "generateFeatureBreakdown"}

\* an analysis request that has got as far as its session id
AnalysisRequest(r) == requests[r].route = "analyse-page" /\ Has(requests[r], "log")

\* the event is in the log before position i
Earlier(log, i, event) == \E j \in 1..(i - 1) : log[j] = event

TokenConsumers ==
    {"generateCode", "generateAccessibilityReport", "generateSOP", "generateDesignKit",
     "generateFeatureBreakdown"}

AnsweredAfterFigma(r) ==
    /\ requests[r].pc = "responded"
    /\ Has(requests[r], "fileKey")
    /\ ~figma.ok

RespondsWith(r, status, errorCode) ==
    /\ requests[r].response.status = status
    /\ Has(requests[r].response.body, "errorCode")
    /\ requests[r].response.body.errorCode = errorCode

\* C24: whenever the Figma API answers the file request with HTTP 403, POST
\* /api/file-info and POST /api/analyse-page respond with status 403 and
\* errorCode PERMISSION_DENIED; whenever it answers with HTTP 404, they respond
\* with status 404 and errorCode FILE_NOT_FOUND, whatever the body of the Figma
\* error response is.
C24_FigmaErrorsMapped ==
    \A r \in DOMAIN requests :
        AnsweredAfterFigma(r) =>
            /\ figma.status = 403 => RespondsWith(r, 403, "PERMISSION_DENIED")
            /\ figma.status = 404 => RespondsWith(r, 404, "FILE_NOT_FOUND")

\* createAnalysis of request r has settled and the handler has answered
AnsweredAfterSave(r) ==
    /\ AnalysisRequest(r)
    /\ requests[r].pc = "responded"
    /\ Has(requests[r], "saved")

\* C25: if saving the analysis record to the database fails (createAnalysis
\* rejects, on a duplicate session_id or a lost connection), POST
\* /api/analyse-page still answers with the same successful result (status 200,
\* success true, the result object built before the save) it sends when the
\* save succeeds, and the table is left as it was.
C25_FailedSaveKeepsResult ==
    \A r \in DOMAIN requests :
        AnsweredAfterSave(r) =>
            /\ requests[r].response.status = 200
            /\ requests[r].response.body = requests[r].result
            /\ requests[r].response.body.success
            /\ requests[r].saved => Row(requests[r]) \in db

\* the save was rejected for a session id the table held already
C25_Witness ==
    /\ \E r \in DOMAIN requests :
           /\ AnsweredAfterSave(r)
           /\ ~requests[r].saved
           /\ \E row \in db : row.session_id = requests[r].sessionId

\* the analysis requests that have been given their session id
WithSession == {r \in DOMAIN requests : AnalysisRequest(r) /\ Has(requests[r], "sessionId")}

\* C26: two POST /api/analyse-page requests handled by one server never get
\* the same sessionId, even when they overlap in time or arrive within the
\* same clock tick.
C26_SessionIdsDistinct ==
    \A r1, r2 \in WithSession :
        r1 # r2 => requests[r1].sessionId # requests[r2].sessionId

\* an API forest without the nodes marked visible = false, at every depth
RECURSIVE ShownOnly(_)
ShownOnly(apiForest) ==
    LET shown == Filter(apiForest, IsVisible)
    IN  [i \in 1..Len(shown) |->
            IF Has(shown[i], "children")
            THEN [children |-> ShownOnly(shown[i].children)] @@ shown[i]
            ELSE shown[i]]

\* the request went past parseFigmaNodes
ParsedPage(r) == AnalysisRequest(r) /\ Has(requests[r], "parsedDesign")

\* C28: in POST /api/analyse-page, no node that the Figma API marks
\* visible = false, at any depth of the selected page including the page's
\* top-level children, contributes a colour, text style, spacing, auto-layout
\* or radius value to the parsed design: the parsed design is the one of the
\* page without these nodes.
C28_HiddenNodesContributeNothing ==
    \A r \in DOMAIN requests :
        ParsedPage(r) =>
            LET shown == ShownOnly(requests[r].page.children)
            IN  requests[r].parsedDesign
                    = parseFigmaNodes([i \in 1..Len(shown) |->
                                          convertApiNodeToInternal(shown[i])])

\* the request went past generateCode
CodeGenerated(r) == AnalysisRequest(r) /\ Has(requests[r], "code")

\* the names of the tokens of the list that have the value
NamesOfValue(tokenList, value) ==
    {tokenList[i].name : i \in {j \in 1..Len(tokenList) : tokenList[j].value = value}}

PaddingPrefixes ==
    [paddingLeft |-> "pl-", paddingRight |-> "pr-", paddingTop |-> "pt-",
     paddingBottom |-> "pb-"]

\* C29: when tokens is generateDesignTokens(parseFigmaNodes(F)) for a
\* non-empty forest F, generateCode(F, tokens) never falls back to the
\* placeholder md-0: every non-zero padding and non-zero itemSpacing of F's
\* first root equals the value of some spacing token, a positive numeric
\* cornerRadius of that root equals the value of some border-radius token, and
\* the class generated for it carries the name of such a token.
C29_NoPlaceholderClass ==
    \A r \in DOMAIN requests :
        CodeGenerated(r) =>
            LET root == requests[r].nodes[1]
                component == requests[r].code.reactComponent
                spacing == requests[r].tokens.spacing
                radii == requests[r].tokens.borderRadius
            IN  /\ \A side \in DOMAIN PaddingPrefixes :
                       (Has(root, side) /\ root[side] # 0) =>
                           \E name \in NamesOfValue(spacing, root[side]) :
                               \E i \in 1..Len(component.paddingClasses) :
                                   component.paddingClasses[i]
                                       = PaddingPrefixes[side] \o name
                /\ (Has(root, "itemSpacing") /\ root.itemSpacing # 0) =>
                       \E name \in NamesOfValue(spacing, root.itemSpacing) :
                           component.gap = "gap-" \o name
                /\ (Has(root, "cornerRadius") /\ typeof(root.cornerRadius) = "number"
                    /\ root.cornerRadius.num > 0) =>
                       \E name \in NamesOfValue(radii, root.cornerRadius.num) :
                           component.radiusClass = "rounded-" \o name

\* code was generated for a root with two paddings, a gap and a radius
C29_Witness ==
    /\ \E r \in DOMAIN requests :
           /\ CodeGenerated(r)
           /\ Len(requests[r].code.reactComponent.paddingClasses) = 2
           /\ requests[r].code.reactComponent.gap # ""
           /\ requests[r].code.reactComponent.radiusClass # ""

\* the forest behind an array of references: every node with its children in
\* place of their references (of an input without cycle)
RECURSIVE ForestOf(_)
ForestOf(refs) ==
    [i \in 1..Len(refs) |->
        LET node == heap[refs[i]]
        IN  IF Has(node, "children")
            THEN [children |-> ForestOf(node.children)] @@ node
            ELSE node]

====
